---- MODULE Spec2Model ----
(***************************************************************************)
(* Model of the Telegram <-> Voiceflow bridge (vf-bot-antismoke):           *)
(*   - the anti-replay cache `seen` / markSeen          (telegram.ts)       *)
(*   - the callback payload store `cbStore`             (telegram.ts)       *)
(*   - telegramSendMessage's callback_data encoding     (telegram.ts)       *)
(*   - the webhook handler of telegramRoutes            (telegram.ts)       *)
(*   - the button extraction of voiceflowInteract       (voiceflowRuntime)  *)
(* Strings that are measured, trimmed or compared are sequences of Unicode  *)
(* code points; admission keys are TLA+ strings built by concatenation.     *)
(* Time is Date.now() in milliseconds, counted from StartMs.                *)
(***************************************************************************)
EXTENDS Integers, Sequences, FiniteSets, TLC

VARIABLES
    clock,      \* Date.now()
    ticks,      \* how many times the model has let time pass
    seen,       \* Map<string, number>: admission key -> time of admission
    cbStore,    \* Map<string, {payload, exp}>: token -> entry
    admits,     \* history: every markSeen call, in order
    lastOp,     \* history: the last cbStore operation, with what it saw
    issued,     \* history: every putCallbackPayload call, in order
    pc,         \* per handler: where the webhook handler is suspended
    ev,         \* per handler: the request body it was called with
    acts,       \* per handler: what it has done so far, in order
    boots,      \* history: every restart of the process, in order
    balance,    \* per user: the message credits the database holds
    userSessions,   \* Map<string, session>: user -> the session object it names
    heap,       \* the session objects ever created: {messages, lastActivity}
    chats,      \* chatWithAI: the calls suspended at the await, how many were made and failed,
                \* and apiCallsCount, the completions that have succeeded
    locals,     \* per handler of the billing revision: its local variables
    timers,     \* the callbacks scheduled with setTimeout, each with its state
    unhandled,  \* history: the rejections no handler caught, in order
    lastProcessedByChat     \* Map<number, {messageId, text, ts}> of the earlier handler

\* the state of the billing revision and of the earlier handler
otherRevisions ==
    <<balance, userSessions, heap, chats, timers, unhandled, lastProcessedByChat, locals>>

\* the state of the handler with the callback store
core == <<clock, ticks, seen, cbStore, admits, lastOp, issued, pc, ev, acts, boots>>

vars == <<core, otherRevisions>>

----------------------------------------------------------------------------
(* Bounds of the model                                                      *)

StartMs == 1000
MaxAdmits == 4
MaxPuts == 2
GuardTicks == 3
StoreTicks == 3
NHandlers == 2
MaxTicks == 2
MaxItems == 3
MaxButtons == 3

----------------------------------------------------------------------------
(* Strings                                                                  *)

RECURSIVE Rep(_, _)
Rep(c, n) == IF n = 0 THEN <<>> ELSE <<c>> \o Rep(c, n - 1)

\* Buffer.byteLength(s, 'utf8'): one byte per code point, one more from
\* U+0080, one more from U+0800, one more from U+10000
ByteLength(s) ==
    Len(s) + Cardinality({i \in 1 .. Len(s) : s[i] >= 128})
           + Cardinality({i \in 1 .. Len(s) : s[i] >= 2048})
           + Cardinality({i \in 1 .. Len(s) : s[i] >= 65536})

\* String.prototype.length: UTF-16 code units, two from U+10000
JsLength(s) == Len(s) + Cardinality({i \in 1 .. Len(s) : s[i] >= 65536})

\* the white space String.prototype.trim removes
IsWs(c) == \/ c \in {9, 10, 11, 12, 13, 32, 160, 5760, 8232, 8233, 8239, 8287, 12288, 65279}
           \/ (c >= 8192 /\ c <= 8202)

RECURSIVE TrimStart(_)
TrimStart(s) == IF s # <<>> /\ IsWs(Head(s)) THEN TrimStart(Tail(s)) ELSE s

RECURSIVE TrimEnd(_)
TrimEnd(s) == IF s # <<>> /\ IsWs(s[Len(s)]) THEN TrimEnd(SubSeq(s, 1, Len(s) - 1)) ELSE s

Trim(s) == TrimEnd(TrimStart(s))

\* Number.prototype.toString(36) of a non-negative integer
Digit36(d) == IF d < 10 THEN 48 + d ELSE 97 + (d - 10)

RECURSIVE ToBase36(_)
ToBase36(n) == IF n < 36 THEN <<Digit36(n)>>
               ELSE ToBase36(n \div 36) \o <<Digit36(n % 36)>>

\* Number.prototype.toString() of a non-negative integer
RECURSIVE ToDecimal(_)
ToDecimal(n) == IF n < 10 THEN <<48 + n>>
                ELSE ToDecimal(n \div 10) \o <<48 + (n % 10)>>

----------------------------------------------------------------------------
(* Anti-replay cache                                                        *)

SEEN_TTL_MS == 5 * 60 * 1000
SEEN_MAX == 5000

MarkSeenSweepAll(s, now) ==
    IF Cardinality(DOMAIN s) > SEEN_MAX THEN <<>> ELSE s

MarkSeenSweepAlways(s, now) ==
    [k \in {x \in DOMAIN s : ~(now - s[x] > SEEN_TTL_MS)} |-> s[k]]

\* the sweep at the top of markSeen
MarkSeenSweep(s, now) ==
    IF Cardinality(DOMAIN s) > SEEN_MAX
    THEN [k \in {x \in DOMAIN s : ~(now - s[x] > SEEN_TTL_MS)} |-> s[k]]
    ELSE s

MarkSeenResultInclusive(s, key, now) ==
    ~(key \in DOMAIN s /\ s[key] # 0 /\ now - s[key] <= SEEN_TTL_MS)

\* the value markSeen returns: `prev && now - prev < SEEN_TTL_MS` rejects
MarkSeenResult(s, key, now) ==
    LET sw == MarkSeenSweep(s, now)
    IN ~(key \in DOMAIN sw /\ sw[key] # 0 /\ now - sw[key] < SEEN_TTL_MS)

MarkSeenStoreNoInsert(s, key, now) == MarkSeenSweep(s, now)

MarkSeenStoreSliding(s, key, now) == (key :> now) @@ MarkSeenSweep(s, now)

\* the map markSeen leaves behind
MarkSeenStore(s, key, now) ==
    LET sw == MarkSeenSweep(s, now)
    IN IF MarkSeenResult(s, key, now) THEN (key :> now) @@ sw ELSE sw

----------------------------------------------------------------------------
(* Callback payload store                                                   *)

CB_TTL_MS == 10 * 60 * 1000
CB_MAX == 5000
UNDERSCORE == 95

\* Math.random().toString(36).slice(2, 10): up to 8 base-36 digits
RandStrs == { <<105>>, <<52, 102, 122, 121, 111, 56, 50, 109>> }

\* makeToken, given what Date.now() and Math.random() produced
makeToken(now, rnd) == ToBase36(now) \o <<UNDERSCORE>> \o rnd

\* the sweep at the end of putCallbackPayload
PutSweep(st, now) ==
    IF Cardinality(DOMAIN st) > CB_MAX
    THEN [k \in {x \in DOMAIN st : ~(st[x].exp < now)} |-> st[k]]
    ELSE st

\* the map putCallbackPayload leaves behind
putCallbackPayload(st, payload, now, rnd) ==
    PutSweep((makeToken(now, rnd) :> [payload |-> payload, exp |-> now + CB_TTL_MS]) @@ st, now)

getCallbackPayloadNoExpiry(st, x, now) ==
    IF x \notin DOMAIN st THEN x ELSE st[x].payload

\* the value getCallbackPayload returns
getCallbackPayload(st, x, now) ==
    IF x \notin DOMAIN st THEN x
    ELSE IF st[x].exp < now THEN x
    ELSE st[x].payload

getCallbackPayloadStoreDropsLive(st, x, now) == [k \in DOMAIN st \ {x} |-> st[k]]

\* the map getCallbackPayload leaves behind: an expired entry is deleted
getCallbackPayloadStore(st, x, now) ==
    IF x \in DOMAIN st /\ st[x].exp < now
    THEN [k \in DOMAIN st \ {x} |-> st[k]]
    ELSE st

Live(st, now) == {t \in DOMAIN st : ~(st[t].exp < now)}

----------------------------------------------------------------------------
(* voiceflowInteract: from the runtime's trace list to {text, buttons}      *)
(* An optional field is a sequence of length 0 (absent) or 1 (present).     *)
(* item: [text: optional string, messages: sequence of msg]                 *)
(* msg:  [type, message: optional payload.message,                          *)
(*        buttons: optional payload.buttons]                                *)
(* raw button: [name: optional string, payload: optional request.payload]   *)

CHOOSE_PROMPT == <<1042, 1099, 1073, 1077, 1088, 1080, 32, 1074, 1072, 1088, 1080, 1072, 1085, 1090, 58>>
ELLIPSIS == <<8230>>

RECURSIVE ReplaceCRLF(_)
ReplaceCRLF(s) ==
    IF s = <<>> THEN <<>>
    ELSE IF Len(s) >= 2 /\ s[1] = 13 /\ s[2] = 10
         THEN <<10>> \o ReplaceCRLF(SubSeq(s, 3, Len(s)))
         ELSE <<Head(s)>> \o ReplaceCRLF(Tail(s))

normalizeText(s) == Trim(ReplaceCRLF(s))

\* t.replace(/[ \t]+/g, ' ')
RECURSIVE CollapseBlanks(_)
CollapseBlanks(s) ==
    IF s = <<>> THEN <<>>
    ELSE IF Head(s) \in {32, 9}
         THEN IF Len(s) >= 2 /\ s[2] \in {32, 9}
              THEN CollapseBlanks(Tail(s))
              ELSE <<32>> \o CollapseBlanks(Tail(s))
         ELSE <<Head(s)>> \o CollapseBlanks(Tail(s))

\* acc: see Raise
pushUniqueText(acc, value) ==
    IF value = <<>> \/ value[1] = <<>> THEN acc
    ELSE LET t == normalizeText(value[1])
             key == CollapseBlanks(t)
         IN IF t = <<>> \/ key \in acc.keys THEN acc
            ELSE [acc EXCEPT !.texts = Append(@, t), !.keys = @ \cup {key}]

\* JSON values other than null: a string, a number (an integer), a boolean,
\* an object (a sequence of <<key, value>> pairs, in the order of its keys) or
\* an array; the values of an object and of an array are JSON values or null
Str(s) == [ty |-> "string", s |-> s]
Num(n) == [ty |-> "number", n |-> n]
Bool(b) == [ty |-> "boolean", b |-> b]
Obj(fields) == [ty |-> "object", fields |-> fields]
Arr(elems) == [ty |-> "array", elems |-> elems]

\* null where an item, a message entry or a button is expected
JsonNull == [isNull |-> TRUE]
IsNull(x) == "isNull" \in DOMAIN x

\* what res.json() gave: an array of items, or a value `for ... of` cannot
\* iterate: an object, with the fields of an item, or a value that is no
\* object (null, a number, a boolean)
JsonArray(items) == [iterable |-> TRUE, items |-> items, object |-> <<>>]
JsonObject(item) == [iterable |-> FALSE, items |-> <<>>, object |-> <<item>>]
JsonNotIterable == [iterable |-> FALSE, items |-> <<>>, object |-> <<>>]

TRUE_STR == <<116, 114, 117, 101>>
FALSE_STR == <<102, 97, 108, 115, 101>>

\* String(n) of an integer
JsNumber(n) == IF n < 0 THEN <<45>> \o ToDecimal(0 - n) ELSE ToDecimal(n)

NULL_STR == <<110, 117, 108, 108>>

\* four hexadecimal digits, in lower case
Hex4(c) ==
    <<Digit36(c \div 4096), Digit36((c \div 256) % 16), Digit36((c \div 16) % 16),
      Digit36(c % 16)>>

\* what JSON.stringify writes for one character of a string: the quote, the
\* backslash, the control characters and a surrogate without its pair are
\* escaped
JsonEscapeChar(c) ==
    IF c = 34 THEN <<92, 34>>
    ELSE IF c = 92 THEN <<92, 92>>
    ELSE IF c = 8 THEN <<92, 98>>
    ELSE IF c = 9 THEN <<92, 116>>
    ELSE IF c = 10 THEN <<92, 110>>
    ELSE IF c = 12 THEN <<92, 102>>
    ELSE IF c = 13 THEN <<92, 114>>
    ELSE IF c < 32 \/ (c >= 55296 /\ c <= 57343) THEN <<92, 117>> \o Hex4(c)
    ELSE <<c>>

RECURSIVE JsonEscape(_)
JsonEscape(s) == IF s = <<>> THEN <<>> ELSE JsonEscapeChar(Head(s)) \o JsonEscape(Tail(s))

JsonQuote(s) == <<34>> \o JsonEscape(s) \o <<34>>

RECURSIVE JsonValue(_)
RECURSIVE JsonMembers(_)
RECURSIVE JsonElements(_)

JsonMembers(fields) ==
    IF fields = <<>> THEN <<>>
    ELSE JsonQuote(fields[1][1]) \o <<58>> \o JsonValue(fields[1][2])
         \o (IF Len(fields) > 1 THEN <<44>> ELSE <<>>) \o JsonMembers(Tail(fields))

JsonElements(elems) ==
    IF elems = <<>> THEN <<>>
    ELSE JsonValue(elems[1]) \o (IF Len(elems) > 1 THEN <<44>> ELSE <<>>)
         \o JsonElements(Tail(elems))

\* JSON.stringify of an object, given its fields
JsonStringify(fields) == <<123>> \o JsonMembers(fields) \o <<125>>

\* JSON.stringify of a value
JsonValue(v) ==
    IF IsNull(v) THEN NULL_STR
    ELSE IF v.ty = "string" THEN JsonQuote(v.s)
    ELSE IF v.ty = "number" THEN JsNumber(v.n)
    ELSE IF v.ty = "boolean" THEN (IF v.b THEN TRUE_STR ELSE FALSE_STR)
    ELSE IF v.ty = "array" THEN <<91>> \o JsonElements(v.elems) \o <<93>>
    ELSE JsonStringify(v.fields)

\* payloadToString: payload is absent (null or undefined) or holds one value
payloadToString(payload, fallback) ==
    IF payload = <<>> THEN fallback
    ELSE LET v == payload[1]
         IN IF v.ty = "string" THEN v.s
            ELSE IF v.ty = "number" THEN JsNumber(v.n)
            ELSE IF v.ty = "boolean" THEN (IF v.b THEN TRUE_STR ELSE FALSE_STR)
            ELSE JsonValue(v)

NOT_ITERABLE == <<100, 97, 116, 97, 32, 105, 115, 32, 110, 111, 116, 32, 105, 116, 101, 114, 97, 98, 108, 101>>
NULL_READ == <<67, 97, 110, 110, 111, 116, 32, 114, 101, 97, 100, 32, 112, 114, 111, 112, 101, 114, 116, 105, 101, 115, 32, 111, 102, 32, 110, 117, 108, 108, 32, 40, 114, 101, 97, 100, 105, 110, 103, 32, 39>>
NULL_READ_END == <<39, 41>>
PROP_TEXT == <<116, 101, 120, 116>>
PROP_TYPE == <<116, 121, 112, 101>>
PROP_NAME == <<110, 97, 109, 101>>

\* the TypeError of reading a property of null
TypeErrorNull(prop) == [message |-> NULL_READ \o prop \o NULL_READ_END]

\* the TypeError of iterating a value that is not iterable
TypeErrorNotIterable == [message |-> NOT_ITERABLE]

NoError == [message |-> <<>>]

\* acc: [texts: sequence of lines, keys: set of dedup keys, buttons: sequence,
\*       threw: has an exception left the loops, err: that exception]
Raise(acc, e) == [acc EXCEPT !.threw = TRUE, !.err = e]

\* the loop over msg.payload.buttons
RECURSIVE ExtractButtons(_, _)
ExtractButtons(acc, raw) ==
    IF raw = <<>> \/ acc.threw THEN acc
    ELSE IF IsNull(Head(raw)) THEN Raise(acc, TypeErrorNull(PROP_NAME))
    ELSE LET b == Head(raw)
             title == Trim(IF b.name = <<>> THEN <<>> ELSE b.name[1])
             p == Trim(payloadToString(b.payload, title))
             next == IF title = <<>> THEN acc
                     ELSE [acc EXCEPT !.buttons =
                              Append(@, [title |-> title,
                                         payload |-> IF p = <<>> THEN title ELSE p])]
         IN ExtractButtons(next, Tail(raw))

ScanMsg(acc, msg) ==
    IF IsNull(msg) THEN Raise(acc, TypeErrorNull(PROP_TYPE))
    ELSE LET a1 == IF msg.type \in {"text", "speak"} /\ msg.message # <<>> /\ msg.message[1] # <<>>
                   THEN pushUniqueText(acc, msg.message) ELSE acc
         IN IF msg.type \in {"choice", "buttons"} /\ msg.buttons # <<>>
            THEN ExtractButtons(a1, msg.buttons[1])
            ELSE a1

RECURSIVE ScanMsgs(_, _)
ScanMsgs(acc, msgs) ==
    IF msgs = <<>> \/ acc.threw THEN acc
    ELSE ScanMsgs(ScanMsg(acc, Head(msgs)), Tail(msgs))

RECURSIVE ScanItems(_, _)
ScanItems(acc, data) ==
    IF data = <<>> \/ acc.threw THEN acc
    ELSE IF IsNull(Head(data)) THEN Raise(acc, TypeErrorNull(PROP_TEXT))
    ELSE ScanItems(ScanMsgs(pushUniqueText(acc, Head(data).text), Head(data).messages),
                   Tail(data))

RECURSIVE JoinLines(_)
JoinLines(lines) ==
    IF lines = <<>> THEN <<>>
    ELSE IF Len(lines) = 1 THEN lines[1]
    ELSE lines[1] \o <<10, 10>> \o JoinLines(Tail(lines))

\* the loops of voiceflowInteract over what res.json() gave
Scan(data) ==
    LET acc0 == [texts |-> <<>>, keys |-> {}, buttons |-> <<>>, threw |-> FALSE, err |-> NoError]
    IN IF ~data.iterable THEN Raise(acc0, TypeErrorNotIterable)
       ELSE ScanItems(acc0, data.items)

NormalizeNoFallback(data) ==
    [threw |-> Scan(data).threw, err |-> Scan(data).err,
     text |-> Trim(JoinLines(Scan(data).texts)), buttons |-> Scan(data).buttons]

\* what voiceflowInteract does with what res.json() gave: it returns
\* {text, buttons}, or an exception leaves it (threw)
Normalize(data) ==
    LET acc == Scan(data)
        mergedText == Trim(JoinLines(acc.texts))
    IN IF acc.threw
       THEN [threw |-> TRUE, err |-> acc.err, text |-> <<>>, buttons |-> <<>>]
       ELSE IF mergedText = <<>> /\ acc.buttons # <<>>
       THEN [threw |-> FALSE, err |-> NoError, text |-> CHOOSE_PROMPT, buttons |-> acc.buttons]
       ELSE IF mergedText = <<>>
            THEN [threw |-> FALSE, err |-> NoError, text |-> ELLIPSIS, buttons |-> <<>>]
            ELSE [threw |-> FALSE, err |-> NoError, text |-> mergedText, buttons |-> acc.buttons]

----------------------------------------------------------------------------
(* pickButtonsFromChoicePayload, the button extraction of another revision  *)
(* of voiceflowRuntime                                                      *)
(* payload: absent, or <<[buttons, choices, options: optional sequences]>>  *)
(* entry: null, or [name, label, text, request_payload, payload: optional   *)
(*        JSON values]                                                      *)

OBJECT_OBJECT == <<91, 111, 98, 106, 101, 99, 116, 32, 79, 98, 106, 101, 99, 116, 93>>

PROP_TOSTRING == <<116, 111, 83, 116, 114, 105, 110, 103>>
\* "Cannot convert object to primitive value"
CANNOT_CONVERT == <<67, 97, 110, 110, 111, 116, 32, 99, 111, 110, 118, 101, 114, 116, 32, 111, 98, 106, 101, 99, 116, 32, 116, 111, 32, 112, 114, 105, 109, 105, 116, 105, 118, 101, 32, 118, 97, 108, 117, 101>>

\* the TypeError of String(v) for an object whose own key toString hides
\* Object.prototype.toString: no value of a parsed JSON text is a function
TypeErrorPrimitive == [message |-> CANNOT_CONVERT]

\* what a call gave: the string it returned, or the exception it threw
Returned(s) == [threw |-> FALSE, err |-> NoError, s |-> s]
Thrown(e) == [threw |-> TRUE, err |-> e, s |-> <<>>]

HasOwnToString(fields) == \E i \in 1 .. Len(fields) : fields[i][1] = PROP_TOSTRING

\* String(v) of a JSON value; an array gives its elements joined by commas,
\* null among them as the empty string; an exception of an element leaves
\* the join
RECURSIVE JsString(_)
RECURSIVE JsJoin(_)

JsJoin(elems) ==
    IF elems = <<>> THEN Returned(<<>>)
    ELSE LET first == IF IsNull(elems[1]) THEN Returned(<<>>) ELSE JsString(elems[1])
             rest == JsJoin(Tail(elems))
         IN IF first.threw THEN first
            ELSE IF rest.threw THEN rest
            ELSE Returned(first.s \o (IF Len(elems) > 1 THEN <<44>> ELSE <<>>) \o rest.s)

JsString(v) ==
    IF v.ty = "string" THEN Returned(v.s)
    ELSE IF v.ty = "number" THEN Returned(JsNumber(v.n))
    ELSE IF v.ty = "boolean" THEN Returned(IF v.b THEN TRUE_STR ELSE FALSE_STR)
    ELSE IF v.ty = "array" THEN JsJoin(v.elems)
    ELSE IF HasOwnToString(v.fields) THEN Thrown(TypeErrorPrimitive)
    ELSE Returned(OBJECT_OBJECT)

\* a ?? b ?? ... over optional values: the first that is present
FirstPresent(opts) ==
    IF \A i \in 1 .. Len(opts) : opts[i] = <<>> THEN <<>>
    ELSE opts[CHOOSE i \in 1 .. Len(opts) :
                  opts[i] # <<>> /\ \A j \in 1 .. (i - 1) : opts[j] = <<>>]

\* String(b?.name ?? b?.label ?? b?.text ?? '').trim()
PickTitle(b) ==
    IF IsNull(b) THEN Returned(<<>>)
    ELSE LET v == FirstPresent(<<b.name, b.label, b.text>>)
         IN IF v = <<>> THEN Returned(<<>>)
            ELSE IF JsString(v[1]).threw THEN JsString(v[1])
            ELSE Returned(Trim(JsString(v[1]).s))

\* String(b?.request?.payload ?? b?.payload ?? title).trim()
PickPayload(b, title) ==
    LET v == FirstPresent(<<b.request_payload, b.payload>>)
    IN IF v = <<>> THEN Returned(Trim(title))
       ELSE IF JsString(v[1]).threw THEN JsString(v[1])
       ELSE Returned(Trim(JsString(v[1]).s))

\* what pickButtonsFromChoicePayload gave: the buttons it returned, or the
\* exception that left its loop
PickReturned(out) == [threw |-> FALSE, err |-> NoError, buttons |-> out]
PickThrown(e) == [threw |-> TRUE, err |-> e, buttons |-> <<>>]

\* the loop over rawButtons
RECURSIVE PickLoop(_, _)
PickLoop(out, raw) ==
    IF raw = <<>> THEN PickReturned(out)
    ELSE LET b == Head(raw)
             title == PickTitle(b)
         IN IF title.threw THEN PickThrown(title.err)
            ELSE IF title.s = <<>> THEN PickLoop(out, Tail(raw))
            ELSE IF PickPayload(b, title.s).threw
            THEN PickThrown(PickPayload(b, title.s).err)
            ELSE PickLoop(Append(out, [title |-> title.s,
                                       payload |-> PickPayload(b, title.s).s]),
                          Tail(raw))

\* payload.buttons ?? payload.choices ?? payload.options, when it is an array
RawButtons(payload) ==
    IF payload = <<>> THEN <<>>
    ELSE FirstPresent(<<payload[1].buttons, payload[1].choices, payload[1].options>>)

pickButtonsFromChoicePayload(payload) ==
    IF RawButtons(payload) = <<>> THEN PickReturned(<<>>)
    ELSE PickLoop(<<>>, RawButtons(payload)[1])

----------------------------------------------------------------------------
(* Other revisions of voiceflowInteract's loops                             *)

PROP_MESSAGES == <<109, 101, 115, 115, 97, 103, 101, 115>>
\* "((intermediate value) ?? title).trim is not a function"
TRIM_NOT_FUNCTION == <<40, 40, 105, 110, 116, 101, 114, 109, 101, 100, 105, 97, 116, 101, 32, 118, 97, 108, 117, 101, 41, 32, 63, 63, 32, 116, 105, 116, 108, 101, 41, 46, 116, 114, 105, 109, 32, 105, 115, 32, 110, 111, 116, 32, 97, 32, 102, 117, 110, 99, 116, 105, 111, 110>>

\* the TypeError of calling .trim() on a value that is no string
TypeErrorTrim == [message |-> TRIM_NOT_FUNCTION]

\* pushButton: String(titleRaw ?? '').trim(), String(payloadRaw ?? '').trim() || title
pushButton(acc, title, payload) ==
    IF Trim(title) = <<>> THEN acc
    ELSE [acc EXCEPT !.buttons =
             Append(@, [title |-> Trim(title),
                        payload |-> IF Trim(payload) = <<>> THEN Trim(title) ELSE Trim(payload)])]

\* the loops over msg.payload.buttons of the revision that reads the message
\* list first: (b.request?.payload ?? title).trim() is called on the value
RECURSIVE ExtractButtonsStrict(_, _)
ExtractButtonsStrict(acc, raw) ==
    IF raw = <<>> \/ acc.threw THEN acc
    ELSE IF IsNull(Head(raw)) THEN Raise(acc, TypeErrorNull(PROP_NAME))
    ELSE LET b == Head(raw)
             title == Trim(IF b.name = <<>> THEN <<>> ELSE b.name[1])
         IN IF title = <<>> THEN ExtractButtonsStrict(acc, Tail(raw))
            ELSE IF b.payload # <<>> /\ b.payload[1].ty # "string"
            THEN Raise(acc, TypeErrorTrim)
            ELSE ExtractButtonsStrict(
                     pushButton(acc, title,
                                Trim(IF b.payload = <<>> THEN title ELSE b.payload[1].s)),
                     Tail(raw))

ScanMsgTextOnly(acc, msg) ==
    IF IsNull(msg) THEN Raise(acc, TypeErrorNull(PROP_TYPE))
    ELSE LET a1 == IF msg.type = "text" /\ msg.message # <<>> /\ msg.message[1] # <<>>
                   THEN pushUniqueText(acc, msg.message) ELSE acc
         IN IF msg.type \in {"choice", "buttons"} /\ msg.buttons # <<>>
            THEN ExtractButtonsStrict(a1, msg.buttons[1])
            ELSE a1

RECURSIVE ScanMsgsTextOnly(_, _)
ScanMsgsTextOnly(acc, msgs) ==
    IF msgs = <<>> \/ acc.threw THEN acc
    ELSE ScanMsgsTextOnly(ScanMsgTextOnly(acc, Head(msgs)), Tail(msgs))

\* for (const item of data): the message list, and item.text after it
RECURSIVE ScanItemsMessagesFirst(_, _)
ScanItemsMessagesFirst(acc, data) ==
    IF data = <<>> \/ acc.threw THEN acc
    ELSE IF IsNull(Head(data)) THEN Raise(acc, TypeErrorNull(PROP_MESSAGES))
    ELSE LET a1 == ScanMsgsTextOnly(acc, Head(data).messages)
         IN ScanItemsMessagesFirst(
                IF a1.threw THEN a1 ELSE pushUniqueText(a1, Head(data).text),
                Tail(data))

ScanMessagesFirst(data) ==
    LET acc0 == [texts |-> <<>>, keys |-> {}, buttons |-> <<>>, threw |-> FALSE, err |-> NoError]
    IN IF ~data.iterable THEN Raise(acc0, TypeErrorNotIterable)
       ELSE ScanItemsMessagesFirst(acc0, data.items)

\* what the revision that reads the message list first returns
NormalizeMessagesFirst(data) ==
    LET acc == ScanMessagesFirst(data)
        mergedText == Trim(JoinLines(acc.texts))
    IN IF acc.threw
       THEN [threw |-> TRUE, err |-> acc.err, text |-> <<>>, buttons |-> <<>>]
       ELSE [threw |-> FALSE, err |-> NoError,
             text |-> IF mergedText # <<>> THEN mergedText
                      ELSE IF acc.buttons # <<>> THEN CHOOSE_PROMPT ELSE ELLIPSIS,
             buttons |-> acc.buttons]

(* The revision of voiceflowInteract that returns a text only               *)

\* pushDedup: the value is dropped when it is empty or equal to the last
\* line kept
pushDedup(arr, value) ==
    LET v == normalizeText(value)
        last == IF arr # <<>> THEN normalizeText(arr[Len(arr)]) ELSE <<>>
    IN IF v = <<>> \/ last = v THEN arr ELSE Append(arr, v)

\* the loop over item.messages: the message of every entry of type text
RECURSIVE ScanMsgsDedup(_, _)
ScanMsgsDedup(texts, msgs) ==
    IF msgs = <<>> THEN texts
    ELSE LET msg == Head(msgs)
         IN ScanMsgsDedup(IF ~IsNull(msg) /\ msg.type = "text" /\ msg.message # <<>>
                             /\ msg.message[1] # <<>>
                          THEN pushDedup(texts, msg.message[1]) ELSE texts,
                          Tail(msgs))

\* for (const item of data): the message list, and item.text when the item
\* has no message
RECURSIVE ScanItemsDedup(_, _)
ScanItemsDedup(acc, data) ==
    IF data = <<>> \/ acc.threw THEN acc
    ELSE IF IsNull(Head(data)) THEN Raise(acc, TypeErrorNull(PROP_MESSAGES))
    ELSE LET item == Head(data)
             t1 == ScanMsgsDedup(acc.texts, item.messages)
             t2 == IF item.messages = <<>> /\ item.text # <<>> /\ item.text[1] # <<>>
                   THEN pushDedup(t1, item.text[1]) ELSE t1
         IN ScanItemsDedup([acc EXCEPT !.texts = t2], Tail(data))

ScanDedup(data) ==
    LET acc0 == [texts |-> <<>>, threw |-> FALSE, err |-> NoError]
    IN IF ~data.iterable THEN Raise(acc0, TypeErrorNotIterable)
       ELSE ScanItemsDedup(acc0, data.items)

\* what that revision returns: texts.join('\n\n').trim() || '…'
NormalizeDedup(data) ==
    LET acc == ScanDedup(data)
        finalText == Trim(JoinLines(acc.texts))
    IN IF acc.threw THEN [threw |-> TRUE, err |-> acc.err, text |-> <<>>]
       ELSE [threw |-> FALSE, err |-> NoError,
             text |-> IF finalText = <<>> THEN ELLIPSIS ELSE finalText]

(* The revisions that read payloads: an item is null or                     *)
(*   [type: optional string, text: optional string, payload: optional P,    *)
(*    messages: optional sequence of entries]                               *)
(* an entry is null or [type: string, text: optional string,                *)
(*                      payload: optional P]                                *)
(* P is Str(s) or [ty |-> "object", message, text: optional strings,        *)
(*                 buttons, choices, options: optional sequences,           *)
(*                 slate, richText, blocks: optional JSON values]           *)

\* texts.join('\n')
RECURSIVE JoinNewline(_)
JoinNewline(lines) ==
    IF lines = <<>> THEN <<>>
    ELSE IF Len(lines) = 1 THEN lines[1]
    ELSE lines[1] \o <<10>> \o JoinNewline(Tail(lines))

\* pushMaybe: a string that is not blank is pushed, trimmed
pushMaybe(texts, v) ==
    IF v = <<>> \/ Trim(v[1]) = <<>> THEN texts ELSE Append(texts, Trim(v[1]))

\* payload?.message, payload?.text and the payload itself when it is a string
PayloadMessage(p) == IF p = <<>> \/ p[1].ty # "object" THEN <<>> ELSE p[1].message
PayloadText(p) == IF p = <<>> \/ p[1].ty # "object" THEN <<>> ELSE p[1].text
PayloadString(p) == IF p = <<>> \/ p[1].ty # "string" THEN <<>> ELSE <<p[1].s>>

PushPayload(texts, p) ==
    pushMaybe(pushMaybe(pushMaybe(texts, PayloadMessage(p)), PayloadText(p)), PayloadString(p))

RECURSIVE scanMessages(_, _)
scanMessages(texts, msgs) ==
    IF msgs = <<>> THEN texts
    ELSE scanMessages(IF IsNull(Head(msgs)) \/ Head(msgs).type # "text" THEN texts
                      ELSE PushPayload(texts, Head(msgs).payload),
                      Tail(msgs))

scanItem(texts, item) ==
    IF IsNull(item) THEN texts
    ELSE LET t1 == pushMaybe(texts, item.text)
             t2 == IF item.messages = <<>> THEN t1 ELSE scanMessages(t1, item.messages[1])
             t3 == IF item.type = <<"text">> THEN PushPayload(t2, item.payload) ELSE t2
         IN pushMaybe(pushMaybe(t3, PayloadMessage(item.payload)), PayloadText(item.payload))

RECURSIVE scanItems(_, _)
scanItems(texts, items) ==
    IF items = <<>> THEN texts ELSE scanItems(scanItem(texts, Head(items)), Tail(items))

\* the lines extractTextFromVoiceflow collects: an answer that is an object
\* is scanned as one item
extractedTexts(data) ==
    IF data.iterable THEN scanItems(<<>>, data.items)
    ELSE IF data.object # <<>> THEN scanItem(<<>>, data.object[1])
    ELSE <<>>

\* extractTextFromVoiceflow(data) || '…'
extractTextFromVoiceflow(data) ==
    LET text == Trim(JoinNewline(extractedTexts(data)))
    IN IF text = <<>> THEN ELLIPSIS ELSE text

\* if (slate): a value that is not '', 0 or false
Truthy(v) ==
    IF v.ty = "string" THEN v.s # <<>>
    ELSE IF v.ty = "number" THEN v.n # 0
    ELSE IF v.ty = "boolean" THEN v.b
    ELSE TRUE

\* "text", with its quotes
TEXT_KEY == <<34, 116, 101, 120, 116, 34>>

\* the first index from i on that holds no white space (\s*)
RECURSIVE SkipSpace(_, _)
SkipSpace(s, i) == IF i <= Len(s) /\ IsWs(s[i]) THEN SkipSpace(s, i + 1) ELSE i

\* the first index from i on that holds a quote, or Len(s) + 1 ([^"]+)
RECURSIVE SkipToQuote(_, _)
SkipToQuote(s, i) == IF i <= Len(s) /\ s[i] # 34 THEN SkipToQuote(s, i + 1) ELSE i

\* one attempt of /"text"\s*:\s*"([^"]+)"/ at index i: whether it matches,
\* its group and the index after the match
MatchTextAt(s, i) ==
    LET colon == SkipSpace(s, i + Len(TEXT_KEY))
        open == SkipSpace(s, colon + 1)
        close == SkipToQuote(s, open + 1)
    IN IF /\ i + Len(TEXT_KEY) - 1 <= Len(s)
          /\ SubSeq(s, i, i + Len(TEXT_KEY) - 1) = TEXT_KEY
          /\ colon <= Len(s) /\ s[colon] = 58
          /\ open <= Len(s) /\ s[open] = 34
          /\ close > open + 1 /\ close <= Len(s)
       THEN [ok |-> TRUE, group |-> SubSeq(s, open + 1, close - 1), next |-> close + 1]
       ELSE [ok |-> FALSE, group |-> <<>>, next |-> i + 1]

\* [...str.matchAll(/"text"\s*:\s*"([^"]+)"/g)].map(m => m[1])
RECURSIVE MatchAllText(_, _)
MatchAllText(s, i) ==
    IF i > Len(s) THEN <<>>
    ELSE (IF MatchTextAt(s, i).ok THEN <<MatchTextAt(s, i).group>> ELSE <<>>)
         \o MatchAllText(s, MatchTextAt(s, i).next)

\* t.replace(/\\n/g, '\n'): a backslash followed by n becomes a line feed
RECURSIVE UnescapeNewlines(_)
UnescapeNewlines(t) ==
    IF t = <<>> THEN <<>>
    ELSE IF Len(t) > 1 /\ t[1] = 92 /\ t[2] = 110
    THEN <<10>> \o UnescapeNewlines(SubSeq(t, 3, Len(t)))
    ELSE <<t[1]>> \o UnescapeNewlines(Tail(t))

\* the loop over the matches: every piece that is not blank is pushed
RECURSIVE PushCleaned(_, _)
PushCleaned(out, matches) ==
    IF matches = <<>> THEN out
    ELSE PushCleaned(pushMaybe(out, <<UnescapeNewlines(Head(matches))>>), Tail(matches))

\* payload.slate ?? payload.richText ?? payload.blocks
PayloadSlate(p) ==
    IF p = <<>> \/ p[1].ty # "object" THEN <<>>
    ELSE FirstPresent(<<p[1].slate, p[1].richText, p[1].blocks>>)

\* pickTextFromPayload: message, text, and the pieces "text":"..." of the
\* JSON text of the slate
pickTextFromPayload(p) ==
    LET out == pushMaybe(pushMaybe(<<>>, PayloadMessage(p)), PayloadText(p))
        slate == PayloadSlate(p)
    IN IF slate = <<>> \/ ~Truthy(slate[1]) THEN out
       ELSE PushCleaned(out, MatchAllText(JsonValue(slate[1]), 1))

\* pickButtonsFromChoicePayload of a payload of an item or an entry
PayloadButtons(p) ==
    IF p = <<>> \/ p[1].ty # "object" THEN PickReturned(<<>>)
    ELSE pickButtonsFromChoicePayload(
             <<[buttons |-> p[1].buttons, choices |-> p[1].choices, options |-> p[1].options]>>)

\* acc: [texts, buttons, threw, err]; the texts and the buttons of one payload
PickPayloadInto(acc, p) ==
    IF PayloadButtons(p).threw
    THEN Raise([acc EXCEPT !.texts = @ \o pickTextFromPayload(p)], PayloadButtons(p).err)
    ELSE [acc EXCEPT !.texts = @ \o pickTextFromPayload(p),
                     !.buttons = @ \o PayloadButtons(p).buttons]

\* the loop over the entries of item.messages
RECURSIVE PickScanMsgs(_, _)
PickScanMsgs(acc, msgs) ==
    IF msgs = <<>> \/ acc.threw THEN acc
    ELSE LET msg == Head(msgs)
             a1 == IF IsNull(msg) THEN acc ELSE PickPayloadInto(acc, msg.payload)
         IN PickScanMsgs(
                IF IsNull(msg) \/ a1.threw THEN a1
                ELSE [a1 EXCEPT !.texts = pushMaybe(@, msg.text)],
                Tail(msgs))

RECURSIVE PickScanItems(_, _)
PickScanItems(acc, items) ==
    IF items = <<>> \/ acc.threw THEN acc
    ELSE LET item == Head(items)
         IN PickScanItems(
                IF IsNull(item) THEN acc
                ELSE PickScanMsgs(
                         PickPayloadInto([acc EXCEPT !.texts = pushMaybe(@, item.text)],
                                         item.payload),
                         IF item.messages = <<>> THEN <<>> ELSE item.messages[1]),
                Tail(items))

\* the loops of the revision built on pickTextFromPayload
PickScan(data) ==
    LET acc0 == [texts |-> <<>>, buttons |-> <<>>, threw |-> FALSE, err |-> NoError]
    IN IF ~data.iterable THEN Raise(acc0, TypeErrorNotIterable)
       ELSE PickScanItems(acc0, data.items)

\* what that revision returns: texts.map(trim).filter(Boolean).join('\n').trim()
NormalizePick(data) ==
    LET acc == PickScan(data)
    IN IF acc.threw THEN [threw |-> TRUE, err |-> acc.err, text |-> <<>>, buttons |-> <<>>]
       ELSE [threw |-> FALSE, err |-> NoError,
             text |-> Trim(JoinNewline(acc.texts)), buttons |-> acc.buttons]

----------------------------------------------------------------------------
(* telegramSendMessage and buildReply                                       *)

CB_SAFE_BYTES == 60
TG_CALLBACK_MAX == 64

buildReply(vf) ==
    LET text == Trim(vf.text)
    IN IF text = <<>> /\ vf.buttons # <<>> THEN [text |-> CHOOSE_PROMPT, buttons |-> vf.buttons]
       ELSE IF text = <<>> THEN [text |-> ELLIPSIS, buttons |-> <<>>]
       ELSE [text |-> text, buttons |-> vf.buttons]

\* String(b.payload ?? '').trim() || String(b.title ?? '').trim()
ButtonPayload(b) == IF Trim(b.payload) # <<>> THEN Trim(b.payload) ELSE Trim(b.title)

SendsLiterallyAlways(payload) == TRUE

SendsLiterallyByChars(payload) == JsLength(payload) <= CB_SAFE_BYTES

\* Buffer.byteLength(payload, 'utf8') <= 60
SendsLiterally(payload) == ByteLength(payload) <= CB_SAFE_BYTES

NeedsToken(buttons) ==
    {i \in 1 .. Len(buttons) : ~SendsLiterally(ButtonPayload(buttons[i]))}

\* one step of buttons.map(...): an oversized payload is put under a fresh
\* token. acc: [markup, store, puts, rnds]; rnds are the values Math.random()
\* has yet to produce; markup[i].payload is the payload the button stands
\* for (it is not sent).
EncodeButton(acc, b, now) ==
    IF SendsLiterally(ButtonPayload(b))
    THEN [acc EXCEPT !.markup = Append(@, [text |-> b.title, payload |-> ButtonPayload(b),
                                           callback_data |-> ButtonPayload(b)])]
    ELSE [markup |-> Append(acc.markup, [text |-> b.title, payload |-> ButtonPayload(b),
                                         callback_data |-> makeToken(now, Head(acc.rnds))]),
          store |-> putCallbackPayload(acc.store, ButtonPayload(b), now, Head(acc.rnds)),
          puts |-> Append(acc.puts, [token |-> makeToken(now, Head(acc.rnds)),
                                     payload |-> ButtonPayload(b), at |-> now,
                                     live |-> makeToken(now, Head(acc.rnds))
                                                 \in Live(acc.store, now)]),
          rnds |-> Tail(acc.rnds)]

RECURSIVE EncodeFrom(_, _, _, _)
EncodeFrom(buttons, i, acc, now) ==
    IF i > Len(buttons) THEN acc
    ELSE LET next == CHOOSE a \in {EncodeButton(acc, buttons[i], now)} : TRUE
         IN EncodeFrom(buttons, i + 1, next, now)

\* the inline keyboard of telegramSendMessage and the store it leaves behind
EncodeButtons(buttons, st, now, rnds) ==
    EncodeFrom(buttons, 1, [markup |-> <<>>, store |-> st, puts |-> <<>>, rnds |-> rnds], now)

\* the body telegramSendMessage hands to telegramApi('sendMessage', ...)
SendAct(chatId, text, markup) ==
    [t |-> "send", chat |-> chatId,
     text |-> IF Trim(text) = <<>> THEN ELLIPSIS ELSE Trim(text),
     markup |-> markup]

----------------------------------------------------------------------------
(* State                                                                    *)

Handlers == 1 .. NHandlers
NoOp == [op |-> "none"]

Init ==
    /\ clock = StartMs
    /\ ticks = 0
    /\ seen = <<>>
    /\ cbStore = <<>>
    /\ admits = <<>>
    /\ lastOp = NoOp
    /\ issued = <<>>
    /\ pc = [h \in Handlers |-> "idle"]
    /\ ev = [h \in Handlers |-> <<>>]
    /\ acts = [h \in Handlers |-> <<>>]
    /\ boots = <<>>
    /\ balance = <<>>
    /\ userSessions = <<>>
    /\ heap = <<>>
    /\ chats = [open |-> <<>>, made |-> 0, failed |-> 0, apiCallsCount |-> 0]
    /\ locals = [h \in Handlers |-> <<>>]
    /\ timers = <<>>
    /\ unhandled = <<>>
    /\ lastProcessedByChat = <<>>

\* time passes between two operations
Advance(d, maxTicks) ==
    /\ ticks < maxTicks
    /\ ticks' = ticks + 1
    /\ clock' = clock + d

\* the entries of map `before` that are gone from map `after`
Deleted(before, after) == [k \in DOMAIN before \ DOMAIN after |-> before[k]]

----------------------------------------------------------------------------
(* The guard alone: markSeen called with keys at non-decreasing times       *)

GuardKeys == {"u:1", "m:1:1"}
GuardSteps == {1, SEEN_TTL_MS - 1}

Admit(key) ==
    /\ Len(admits) < MaxAdmits
    /\ seen' = MarkSeenStore(seen, key, clock)
    /\ admits' = Append(admits, [key |-> key, at |-> clock,
                                 ok |-> MarkSeenResult(seen, key, clock), h |-> 0])
    /\ lastOp' = [op |-> "admit", key |-> key, at |-> clock,
                  ok |-> MarkSeenResult(seen, key, clock),
                  size |-> Cardinality(DOMAIN seen),
                  prev |-> IF key \in DOMAIN seen THEN <<seen[key]>> ELSE <<>>,
                  removed |-> Deleted(seen, seen')]
    /\ UNCHANGED <<otherRevisions, boots, clock, ticks, cbStore, issued, pc, ev, acts>>

GuardTick ==
    /\ \E d \in GuardSteps : Advance(d, GuardTicks)
    /\ UNCHANGED <<otherRevisions, boots, seen, cbStore, admits, lastOp, issued, pc, ev, acts>>

GuardNext ==
    \/ \E key \in GuardKeys : Admit(key)
    \/ GuardTick

SpecGuard == Init /\ [][GuardNext]_vars

\* the most recent earlier call with the same key that returned true (0: none)
LastAdmitted(i) ==
    LET prior == {j \in 1 .. (i - 1) : admits[j].key = admits[i].key /\ admits[j].ok}
    IN IF prior = {} THEN 0 ELSE CHOOSE j \in prior : \A k \in prior : k <= j

\* C1: for every key, the first markSeen call returns true, a later call made
\* less than 5 minutes after the most recent call that returned true returns
\* false, and a call made 5 minutes or more after it returns true again.
C1_AdmitOncePerWindow ==
    \A i \in 1 .. Len(admits) :
        admits[i].ok = (\/ LastAdmitted(i) = 0
                        \/ admits[i].at - admits[LastAdmitted(i)].at >= SEEN_TTL_MS)

\* one key: admitted, rejected inside the window, admitted again exactly when
\* the window has elapsed, rejected inside the new window
C1_Witness ==
    \E i, j, k, l \in 1 .. Len(admits) :
        /\ i < j /\ j < k /\ k < l
        /\ admits[i].key = admits[j].key /\ admits[j].key = admits[k].key
        /\ admits[k].key = admits[l].key
        /\ admits[i].ok /\ ~admits[j].ok /\ admits[k].ok /\ ~admits[l].ok
        /\ admits[j].at > admits[i].at
        /\ admits[k].at - admits[i].at = SEEN_TTL_MS

\* C22: the window is fixed from the admitting call: a markSeen call that
\* returns false changes no stored timestamp (every stored timestamp is the
\* time of the last call with that key that returned true), so a key is never
\* rejected 5 minutes or more after the call that returned true, however many
\* calls were rejected in between.
C22_WindowIsFixed ==
    /\ \A k \in DOMAIN seen :
          \E i \in 1 .. Len(admits) :
              /\ admits[i].key = k /\ admits[i].ok /\ admits[i].at = seen[k]
              /\ \A j \in (i + 1) .. Len(admits) : admits[j].key = k => ~admits[j].ok
    /\ \A i \in 1 .. Len(admits) :
          ~admits[i].ok =>
              /\ LastAdmitted(i) # 0
              /\ admits[i].at - admits[LastAdmitted(i)].at < SEEN_TTL_MS

\* a key was admitted, rejected later inside the window, and admitted again
\* exactly 5 minutes after the first admission, less than 5 minutes after the
\* rejected call
C22_Witness ==
    \E i, j, k \in 1 .. Len(admits) :
        /\ i < j /\ j < k
        /\ admits[i].key = admits[j].key /\ admits[j].key = admits[k].key
        /\ admits[i].ok /\ ~admits[j].ok /\ admits[k].ok
        /\ admits[j].at > admits[i].at
        /\ admits[k].at - admits[i].at = SEEN_TTL_MS
        /\ admits[k].at - admits[j].at < SEEN_TTL_MS
        /\ seen[admits[k].key] = admits[k].at

----------------------------------------------------------------------------
(* The store alone: putCallbackPayload / getCallbackPayload                 *)

LongAscii == Rep(97, 61)        \* 61 characters, 61 bytes
LongCyr == Rep(1103, 31)        \* 31 characters, 62 bytes
LitYes == <<121, 101, 115>>     \* "yes"
StorePayloads == {LongAscii, LongCyr}
StoreSteps == {1, CB_TTL_MS - 1}

IssuedTokens == {issued[i].token : i \in 1 .. Len(issued)}

Put(payload, rnd) ==
    /\ Len(issued) < MaxPuts
    /\ cbStore' = putCallbackPayload(cbStore, payload, clock, rnd)
    /\ issued' = Append(issued, [token |-> makeToken(clock, rnd),
                                 payload |-> payload, at |-> clock,
                                 live |-> makeToken(clock, rnd) \in Live(cbStore, clock)])
    /\ lastOp' = [op |-> "put", token |-> makeToken(clock, rnd), payload |-> payload,
                  at |-> clock, live |-> makeToken(clock, rnd) \in Live(cbStore, clock),
                  size |-> Cardinality(DOMAIN cbStore \cup {makeToken(clock, rnd)}),
                  removed |-> Deleted(cbStore, cbStore')]
    /\ UNCHANGED <<otherRevisions, boots, clock, ticks, seen, admits, pc, ev, acts>>

Resolve(x) ==
    /\ cbStore' = getCallbackPayloadStore(cbStore, x, clock)
    /\ lastOp' = [op |-> "resolve", input |-> x,
                  out |-> getCallbackPayload(cbStore, x, clock), at |-> clock,
                  known |-> x \in DOMAIN cbStore,
                  exp |-> IF x \in DOMAIN cbStore THEN cbStore[x].exp ELSE 0,
                  removed |-> Deleted(cbStore, cbStore')]
    /\ UNCHANGED <<otherRevisions, boots, clock, ticks, seen, admits, issued, pc, ev, acts>>

StoreTick ==
    /\ \E d \in StoreSteps : Advance(d, StoreTicks)
    /\ UNCHANGED <<otherRevisions, boots, seen, cbStore, admits, lastOp, issued, pc, ev, acts>>

StoreNext ==
    \/ \E payload \in StorePayloads, rnd \in RandStrs : Put(payload, rnd)
    \/ \E x \in IssuedTokens \cup {LitYes} : Resolve(x)
    \/ StoreTick

SpecStore == Init /\ [][StoreNext]_vars

\* C4: after t = put(p), every resolve(t) performed before the entry's
\* expiry (10 minutes after the put) returns exactly p, whatever other put and
\* resolve operations happened in between.
C4_ResolveReturnsPutPayload ==
    lastOp.op = "resolve" =>
        \A i \in 1 .. Len(issued) :
            (issued[i].token = lastOp.input /\ lastOp.at < issued[i].at + CB_TTL_MS)
                => lastOp.out = issued[i].payload

\* C5: resolve returns its input unchanged when the input is not a stored
\* token, or is a stored token whose expiry time has passed.
C5_ResolveFallsBackToInput ==
    (lastOp.op = "resolve" /\ (~lastOp.known \/ lastOp.exp < lastOp.at))
        => lastOp.out = lastOp.input

\* a token that was put is resolved after its expiry and comes back unchanged
C5_Witness ==
    /\ lastOp.op = "resolve"
    /\ lastOp.input \in IssuedTokens
    /\ lastOp.known
    /\ lastOp.exp < lastOp.at
    /\ lastOp.out = lastOp.input

\* C6: put never returns a token that is currently mapped to an unexpired
\* entry.
C6_PutNeverReturnsLiveToken ==
    lastOp.op = "put" => ~lastOp.live

----------------------------------------------------------------------------
(* The webhook handler of telegramRoutes                                    *)
(* body: [valid: does UpdateSchema.parse accept it, update_id: optional,    *)
(*        message: optional [message_id: optional, text: optional,          *)
(*                           chat_id, from_id: optional],                   *)
(*        callback_query: optional [id: optional, data: optional,           *)
(*                           chat_id: optional (message.chat.id),           *)
(*                           from_id: optional]]                            *)

APOLOGY == <<1059, 1087, 1089, 44, 32, 1086, 1096, 1080, 1073, 1082, 1072, 32, 1085, 1072, 32, 1089, 1077, 1088, 1074, 1077, 1088, 1077, 46, 32, 1055, 1086, 1087, 1088, 1086, 1073, 1091, 1081, 32, 1077, 1097, 1105, 32, 1088, 1072, 1079, 32, 1095, 1077, 1088, 1077, 1079, 32, 1084, 1080, 1085, 1091, 1090, 1091, 46>>
HELP_TEXT == <<1050, 1086, 1084, 1072, 1085, 1076, 1099, 58, 10, 47, 115, 116, 97, 114, 116, 32, 8212, 32, 1085, 1072, 1095, 1072, 1090, 1100, 10, 47, 104, 101, 108, 112, 32, 8212, 32, 1087, 1086, 1084, 1086, 1097, 1100, 10, 10, 1048, 1083, 1080, 32, 1087, 1088, 1086, 1089, 1090, 1086, 32, 1085, 1072, 1078, 1080, 1084, 1072, 1081, 32, 1082, 1085, 1086, 1087, 1082, 1080, 32, 128578>>
START_CMD == <<47, 115, 116, 97, 114, 116>>
HELP_CMD == <<47, 104, 101, 108, 112>>

ERR_PREFIX == <<86, 111, 105, 99, 101, 102, 108, 111, 119, 32, 114, 117, 110, 116, 105, 109, 101, 32, 101, 114, 114, 111, 114, 58, 32>>
ERR_DASH == <<32, 45, 32>>
TG_ERR_PREFIX == <<84, 101, 108, 101, 103, 114, 97, 109, 32, 65, 80, 73, 32, 115, 101, 110, 100, 77, 101, 115, 115, 97, 103, 101, 32, 102, 97, 105, 108, 101, 100, 58, 32>>

\* the Error voiceflowInteract throws when the response is not ok
VoiceflowError(status, statusText, errText) ==
    [message |-> ERR_PREFIX \o ToDecimal(status) \o <<32>> \o statusText \o ERR_DASH \o errText]

\* the TypeError fetch rejects with when the transport fails
FetchFailed == [message |-> <<102, 101, 116, 99, 104, 32, 102, 97, 105, 108, 101, 100>>]

\* the Error telegramApi throws when the response is not ok
TelegramError(status, statusText, t) ==
    [message |-> TG_ERR_PREFIX \o ToDecimal(status) \o <<32>> \o statusText \o ERR_DASH \o t]

UpstreamErrors ==
    {VoiceflowError(429, <<84, 111, 111, 32, 77, 97, 110, 121, 32, 82, 101, 113, 117, 101, 115, 116, 115>>,
                    <<113, 117, 111, 116, 97, 32, 101, 120, 99, 101, 101, 100, 101, 100, 32, 102, 111, 114, 32, 107, 101, 121, 32, 86, 70, 46, 68, 77, 46, 49>>),
     FetchFailed}

SendError == TelegramError(400, <<66, 97, 100, 32, 82, 101, 113, 117, 101, 115, 116>>, <<>>)

CatchSendLeaksError(chatId, e) == SendAct(chatId, e.message, <<>>)

\* the send of the catch blocks: the apology, whatever was caught
CatchSend(chatId, e) == SendAct(chatId, APOLOGY, <<>>)

ReplySendMissing == <<>>

\* reply.send({ ok: true }), the handler's first statement
ReplySend == <<[t |-> "ack"]>>

KeyOfNoNamespace(kind, ids) ==
    IF kind = "u" THEN ToString(ids[1])
    ELSE IF kind = "m" THEN ToString(ids[1]) \o ":" \o ToString(ids[2])
    ELSE ids[1]

\* the admission keys: `u:${update_id}`, `m:${chatId}:${message_id}` and
\* `c:${callbackId}`; ids are the raw identifiers (numbers, or the callback
\* id, a string)
KeyOf(kind, ids) ==
    IF kind = "u" THEN "u:" \o ToString(ids[1])
    ELSE IF kind = "m" THEN "m:" \o ToString(ids[1]) \o ":" \o ToString(ids[2])
    ELSE "c:" \o ids[1]

\* a markSeen call, with the kind and raw identifiers its key was built from
AdmitAct(s, kind, ids, now) ==
    [t |-> "admit", kind |-> kind, ids |-> ids, key |-> KeyOf(kind, ids),
     ok |-> MarkSeenResult(s, KeyOf(kind, ids), now), at |-> now]

UpstreamAct(userId, launch, text) ==
    [t |-> "upstream", userId |-> userId, launch |-> launch, text |-> text]

IsClick(b) ==
    /\ b.callback_query # <<>>
    /\ b.callback_query[1].data # <<>>
    /\ b.callback_query[1].data[1] # <<>>
    /\ b.callback_query[1].chat_id # <<>>
    /\ b.callback_query[1].chat_id[1] # 0

HasCallbackId(b) == b.callback_query[1].id # <<>> /\ b.callback_query[1].id[1] # ""

ClickUser(b) ==
    LET cq == b.callback_query[1]
    IN ToString(IF cq.from_id # <<>> THEN cq.from_id[1] ELSE cq.chat_id[1])

HandleClickNoReturn(b, s, now, pre) ==
    LET cIds == <<b.callback_query[1].id[1]>>
        cKey == KeyOf("c", cIds)
    IN IF HasCallbackId(b)
       THEN [acts |-> pre \o <<AdmitAct(s, "c", cIds, now),
                               [t |-> "answerCallbackQuery", id |-> b.callback_query[1].id[1]]>>,
             seen |-> MarkSeenStore(s, cKey, now), next |-> "answering"]
       ELSE [acts |-> pre, seen |-> s, next |-> "answering"]

\* the click branch up to `await telegramAnswerCallbackQuery(callbackId)`
HandleClick(b, s, now, pre) ==
    LET cIds == <<b.callback_query[1].id[1]>>
        cKey == KeyOf("c", cIds)
    IN IF HasCallbackId(b)
       THEN IF ~MarkSeenResult(s, cKey, now)
            THEN [acts |-> Append(pre, AdmitAct(s, "c", cIds, now)),
                  seen |-> MarkSeenStore(s, cKey, now), next |-> "done"]
            ELSE [acts |-> pre \o <<AdmitAct(s, "c", cIds, now),
                                    [t |-> "answerCallbackQuery",
                                     id |-> b.callback_query[1].id[1]]>>,
                  seen |-> MarkSeenStore(s, cKey, now), next |-> "answering"]
       ELSE [acts |-> pre, seen |-> s, next |-> "answering"]

HandleMessageNoTextCheck(b, s, now, pre) ==
    IF b.message = <<>> \/ b.message[1].chat_id = 0
    THEN [acts |-> pre, seen |-> s, next |-> "done"]
    ELSE LET msg == b.message[1]
             userId == ToString(IF msg.from_id # <<>> THEN msg.from_id[1] ELSE msg.chat_id)
             text == Trim(IF msg.text = <<>> THEN <<>> ELSE msg.text[1])
         IN [acts |-> Append(pre, UpstreamAct(userId, FALSE, text)),
             seen |-> s, next |-> "upstream"]

HandleMessageNoReturn(b, s, now, pre) ==
    IF b.message = <<>> \/ b.message[1].chat_id = 0
    THEN [acts |-> pre, seen |-> s, next |-> "done"]
    ELSE LET msg == b.message[1]
             chatId == msg.chat_id
             userId == ToString(IF msg.from_id # <<>> THEN msg.from_id[1] ELSE chatId)
             text == Trim(IF msg.text = <<>> THEN <<>> ELSE msg.text[1])
             hasM == msg.message_id # <<>>
             mIds == <<chatId, msg.message_id[1]>>
             pre1 == IF hasM THEN Append(pre, AdmitAct(s, "m", mIds, now)) ELSE pre
             s1 == IF hasM THEN MarkSeenStore(s, KeyOf("m", mIds), now) ELSE s
         IN IF text = <<>> THEN [acts |-> pre, seen |-> s, next |-> "done"]
            ELSE IF text = START_CMD
                 THEN [acts |-> Append(pre1, UpstreamAct(userId, TRUE, <<>>)),
                       seen |-> s1, next |-> "upstream"]
            ELSE IF text = HELP_CMD
                 THEN [acts |-> Append(pre1, SendAct(chatId, HELP_TEXT, <<>>)),
                       seen |-> s1, next |-> "sending"]
            ELSE [acts |-> Append(pre1, UpstreamAct(userId, FALSE, text)),
                  seen |-> s1, next |-> "upstream"]

\* the message branch up to its first network call
HandleMessage(b, s, now, pre) ==
    IF b.message = <<>> \/ b.message[1].chat_id = 0
    THEN [acts |-> pre, seen |-> s, next |-> "done"]
    ELSE LET msg == b.message[1]
             chatId == msg.chat_id
             userId == ToString(IF msg.from_id # <<>> THEN msg.from_id[1] ELSE chatId)
             text == Trim(IF msg.text = <<>> THEN <<>> ELSE msg.text[1])
             hasM == msg.message_id # <<>>
             mIds == <<chatId, msg.message_id[1]>>
             mKey == KeyOf("m", mIds)
             pre1 == IF hasM THEN Append(pre, AdmitAct(s, "m", mIds, now)) ELSE pre
             s1 == IF hasM THEN MarkSeenStore(s, mKey, now) ELSE s
         IN IF text = <<>> THEN [acts |-> pre, seen |-> s, next |-> "done"]
            ELSE IF hasM /\ ~MarkSeenResult(s, mKey, now)
                 THEN [acts |-> pre1, seen |-> s1, next |-> "done"]
            ELSE IF text = START_CMD
                 THEN [acts |-> Append(pre1, UpstreamAct(userId, TRUE, <<>>)),
                       seen |-> s1, next |-> "upstream"]
            ELSE IF text = HELP_CMD
                 THEN [acts |-> Append(pre1, SendAct(chatId, HELP_TEXT, <<>>)),
                       seen |-> s1, next |-> "sending"]
            ELSE [acts |-> Append(pre1, UpstreamAct(userId, FALSE, text)),
                  seen |-> s1, next |-> "upstream"]

HandleUpdateNoReturn(b, s, now) ==
    IF ~b.valid THEN [acts |-> Append(ReplySend, [t |-> "threw"]), seen |-> s, next |-> "threw"]
    ELSE LET hasU == b.update_id # <<>>
             uKey == KeyOf("u", b.update_id)
             pre == IF hasU THEN Append(ReplySend, AdmitAct(s, "u", b.update_id, now))
                    ELSE ReplySend
             s1 == IF hasU THEN MarkSeenStore(s, uKey, now) ELSE s
         IN IF IsClick(b) THEN HandleClick(b, s1, now, pre)
            ELSE HandleMessage(b, s1, now, pre)

\* the handler from its entry to its first suspension or return
HandleUpdate(b, s, now) ==
    IF ~b.valid THEN [acts |-> Append(ReplySend, [t |-> "threw"]), seen |-> s, next |-> "threw"]
    ELSE LET hasU == b.update_id # <<>>
             uKey == KeyOf("u", b.update_id)
             pre == IF hasU THEN Append(ReplySend, AdmitAct(s, "u", b.update_id, now))
                    ELSE ReplySend
             s1 == IF hasU THEN MarkSeenStore(s, uKey, now) ELSE s
         IN IF hasU /\ ~MarkSeenResult(s, uKey, now)
            THEN [acts |-> pre, seen |-> s1, next |-> "done"]
            ELSE IF IsClick(b) THEN HandleClick(b, s1, now, pre)
            ELSE HandleMessage(b, s1, now, pre)

ChatOf(b) == IF IsClick(b) THEN b.callback_query[1].chat_id[1] ELSE b.message[1].chat_id

\* the markSeen calls among `as`, as entries of the admission history
RECURSIVE AdmitsOf(_, _)
AdmitsOf(as, h) ==
    IF as = <<>> THEN <<>>
    ELSE (IF Head(as).t = "admit"
          THEN <<[key |-> Head(as).key, at |-> Head(as).at, ok |-> Head(as).ok, h |-> h,
                  kind |-> Head(as).kind, ids |-> Head(as).ids]>>
          ELSE <<>>) \o AdmitsOf(Tail(as), h)

(* Inbound events and upstream answers the model draws from *)

Cyr33 == Rep(1103, 33)                      \* 33 characters, 66 bytes
Bytes61 == Rep(97, 59) \o <<1103>>          \* 60 characters, 61 bytes
LongAscii65 == Rep(97, 65)                  \* 65 characters, 65 bytes
Exact60 == Rep(97, 60)                      \* 60 characters, 60 bytes
S_hi == <<104, 105>>
S_ok == <<111, 107>>

TextBody(u, mid, text) ==
    [valid |-> TRUE, update_id |-> u,
     message |-> <<[message_id |-> mid, text |-> <<text>>, chat_id |-> 1, from_id |-> <<>>]>>,
     callback_query |-> <<>>]

ClickBody(u, id, data) ==
    [valid |-> TRUE, update_id |-> u, message |-> <<>>,
     callback_query |-> <<[id |-> id, data |-> <<data>>, chat_id |-> <<1>>, from_id |-> <<1>>]>>]

\* a click whose message (and so its chat) is missing
NoChatClick ==
    [valid |-> TRUE, update_id |-> <<>>, message |-> <<>>,
     callback_query |-> <<[id |-> <<"2">>, data |-> <<LitYes>>, chat_id |-> <<>>,
                           from_id |-> <<1>>]>>]

\* a click whose data is the empty string
NoDataClick == ClickBody(<<>>, <<"2">>, <<>>)

\* a message without text (a photo, a sticker)
NoTextMessage ==
    [valid |-> TRUE, update_id |-> <<>>,
     message |-> <<[message_id |-> <<3>>, text |-> <<>>, chat_id |-> 1, from_id |-> <<>>]>>,
     callback_query |-> <<>>]

Bodies ==
    {TextBody(<<1>>, <<1>>, S_hi), TextBody(<<2>>, <<1>>, S_hi),
     TextBody(<<5>>, <<2>>, HELP_CMD), TextBody(<<>>, <<>>, START_CMD),
     TextBody(<<>>, <<>>, <<32>>),
     [valid |-> FALSE, update_id |-> <<>>, message |-> <<>>, callback_query |-> <<>>],
     [valid |-> TRUE, update_id |-> <<6>>, message |-> <<>>, callback_query |-> <<>>]}
    \cup {ClickBody(<<3>>, <<"1">>, LitYes), ClickBody(<<4>>, <<"1">>, LitYes)}
    \cup {NoChatClick, NoDataClick, NoTextMessage}

\* a raw button whose request.payload is absent or a string
Btn(name, payload) ==
    [name |-> name, label |-> <<>>, text |-> <<>>,
     payload |-> IF payload = <<>> THEN <<>> ELSE <<Str(payload[1])>>]

\* a raw button whose request.payload is the JSON value v
BtnV(name, v) == [name |-> name, label |-> <<>>, text |-> <<>>, payload |-> <<v>>]

\* a raw button without a name, titled by its label or its text
BtnL(label, text, payload) ==
    [name |-> <<>>, label |-> label, text |-> text,
     payload |-> IF payload = <<>> THEN <<>> ELSE <<Str(payload[1])>>]

TextOnly == JsonArray(<<[text |-> <<S_ok>>, messages |-> <<>>]>>)

WithButtons ==
    JsonArray(<<[text |-> <<>>,
       messages |-> <<[type |-> "choice", message |-> <<>>,
                       buttons |-> << <<Btn(<<<<89>>>>, <<LitYes>>),
                                        Btn(<<<<32, 32>>>>, <<LitYes>>),
                                        Btn(<<<<66>>>>, <<Exact60>>),
                                        Btn(<<<<67>>>>, <<Cyr33>>),
                                        Btn(<<<<78>>>>, <<>>)>> >>]>>]>>)

TwoLong ==
    JsonArray(<<[text |-> <<S_ok>>,
       messages |-> <<[type |-> "buttons", message |-> <<>>,
                       buttons |-> << <<Btn(<<<<65>>>>, <<Bytes61>>),
                                        Btn(<<<<90>>>>, <<LongAscii65>>)>> >>]>>]>>)

\* an answer whose second item is null
NullItemTrace == JsonArray(<<[text |-> <<S_ok>>, messages |-> <<>>], JsonNull>>)

UpstreamAnswers == {TextOnly, WithButtons, TwoLong, NullItemTrace}

\* the answers in the runs that interleave handlers
PlainAnswers == {TextOnly, NullItemTrace}

HandlerSteps == {SEEN_TTL_MS \div 2}

(* Actions *)

DeliverSerialized(h, b) ==
    /\ pc[h] = "idle"
    /\ \A g \in Handlers : g < h => pc[g] \in {"done", "threw"}
    /\ \E r \in {HandleUpdate(b, seen, clock)} :
          /\ seen' = r.seen
          /\ acts' = [acts EXCEPT ![h] = r.acts]
          /\ pc' = [pc EXCEPT ![h] = r.next]
          /\ admits' = admits \o AdmitsOf(r.acts, h)
    /\ ev' = [ev EXCEPT ![h] = b]
    /\ UNCHANGED <<otherRevisions, boots, clock, ticks, cbStore, lastOp, issued>>

\* the webhook handler is called for a request: its synchronous part, up to
\* its first await on a network call; handlers are called in arrival order
\* and none waits for another
Deliver(h, b) ==
    /\ pc[h] = "idle"
    /\ \A g \in Handlers : g < h => pc[g] # "idle"
    /\ \E r \in {HandleUpdate(b, seen, clock)} :
          /\ seen' = r.seen
          /\ acts' = [acts EXCEPT ![h] = r.acts]
          /\ pc' = [pc EXCEPT ![h] = r.next]
          /\ admits' = admits \o AdmitsOf(r.acts, h)
    /\ ev' = [ev EXCEPT ![h] = b]
    /\ UNCHANGED <<otherRevisions, boots, clock, ticks, cbStore, lastOp, issued>>

AnswerDoneStopsOnFailure(h, ok) ==
    /\ pc[h] = "answering"
    /\ HasCallbackId(ev[h]) \/ ok
    /\ LET data == ev[h].callback_query[1].data[1]
           payload == getCallbackPayload(cbStore, data, clock)
       IN IF ok
          THEN /\ acts' = [acts EXCEPT ![h] =
                     @ \o <<[t |-> "answered", ok |-> ok],
                            [t |-> "resolve", input |-> data, out |-> payload, at |-> clock],
                            UpstreamAct(ClickUser(ev[h]), FALSE, payload)>>]
               /\ pc' = [pc EXCEPT ![h] = "upstream"]
          ELSE /\ acts' = [acts EXCEPT ![h] = Append(@, [t |-> "answered", ok |-> ok])]
               /\ pc' = [pc EXCEPT ![h] = "done"]
    /\ UNCHANGED <<otherRevisions, boots, clock, ticks, seen, cbStore, lastOp, admits, issued, ev>>

\* telegramAnswerCallbackQuery settles (its failure is swallowed); the click
\* branch continues to the upstream call
AnswerDone(h, ok) ==
    /\ pc[h] = "answering"
    /\ HasCallbackId(ev[h]) \/ ok
    /\ LET data == ev[h].callback_query[1].data[1]
           payload == getCallbackPayload(cbStore, data, clock)
       IN /\ acts' = [acts EXCEPT ![h] =
                 @ \o (IF HasCallbackId(ev[h]) THEN <<[t |-> "answered", ok |-> ok]>> ELSE <<>>)
                   \o <<[t |-> "resolve", input |-> data, out |-> payload, at |-> clock],
                        UpstreamAct(ClickUser(ev[h]), FALSE, payload)>>]
          /\ cbStore' = getCallbackPayloadStore(cbStore, data, clock)
          /\ lastOp' = [op |-> "resolve", input |-> data, out |-> payload, at |-> clock,
                        known |-> data \in DOMAIN cbStore,
                        exp |-> IF data \in DOMAIN cbStore THEN cbStore[data].exp ELSE 0,
                        removed |-> Deleted(cbStore, cbStore')]
    /\ pc' = [pc EXCEPT ![h] = "upstream"]
    /\ UNCHANGED <<otherRevisions, boots, clock, ticks, seen, admits, issued, ev>>

\* the upstream answers with `data`: voiceflowInteract returns, then
\* buildReply and telegramSendMessage up to its call; or an exception leaves
\* voiceflowInteract's loops and the catch block sends the apology
UpstreamOk(h, data) ==
    /\ pc[h] = "upstream"
    /\ \E vf \in {Normalize(data)} :
         IF vf.threw
         THEN /\ acts' = [acts EXCEPT ![h] =
                             @ \o <<[t |-> "failed", what |-> "normalize", err |-> vf.err],
                                    CatchSend(ChatOf(ev[h]), vf.err)>>]
              /\ pc' = [pc EXCEPT ![h] = "apology"]
              /\ UNCHANGED <<cbStore, issued, lastOp>>
         ELSE \E out \in {buildReply(vf)} :
                \E rnds \in [1 .. Cardinality(NeedsToken(out.buttons)) -> RandStrs] :
                  \E enc \in {EncodeButtons(out.buttons, cbStore, clock, rnds)} :
                      /\ cbStore' = enc.store
                      /\ issued' = issued \o enc.puts
                      /\ lastOp' = IF enc.puts = <<>> THEN lastOp
                                   ELSE [op |-> "put"] @@ enc.puts[Len(enc.puts)]
                      /\ acts' = [acts EXCEPT ![h] =
                                     Append(@, SendAct(ChatOf(ev[h]), out.text, enc.markup))]
                      /\ pc' = [pc EXCEPT ![h] = "sending"]
    /\ UNCHANGED <<otherRevisions, boots, clock, ticks, seen, admits, ev>>

UpstreamFailForgets(h, e) ==
    /\ pc[h] = "upstream"
    /\ acts' = [acts EXCEPT ![h] = @ \o <<[t |-> "failed", what |-> "upstream", err |-> e],
                                          CatchSend(ChatOf(ev[h]), e)>>]
    /\ pc' = [pc EXCEPT ![h] = "apology"]
    /\ seen' = [k \in DOMAIN seen \ {acts[h][i].key :
                                        i \in {n \in 1 .. Len(acts[h]) : acts[h][n].t = "admit"}}
                 |-> seen[k]]
    /\ UNCHANGED <<otherRevisions, boots, clock, ticks, cbStore, admits, lastOp, issued, ev>>

\* voiceflowInteract throws: the catch block sends the apology
UpstreamFail(h, e) ==
    /\ pc[h] = "upstream"
    /\ acts' = [acts EXCEPT ![h] = @ \o <<[t |-> "failed", what |-> "upstream", err |-> e],
                                          CatchSend(ChatOf(ev[h]), e)>>]
    /\ pc' = [pc EXCEPT ![h] = "apology"]
    /\ UNCHANGED <<otherRevisions, boots, clock, ticks, seen, cbStore, admits, lastOp, issued, ev>>

SendOk(h) ==
    /\ pc[h] = "sending"
    /\ pc' = [pc EXCEPT ![h] = "done"]
    /\ UNCHANGED <<otherRevisions, boots, clock, ticks, seen, cbStore, admits, lastOp, issued, ev, acts>>

\* telegramSendMessage throws: the catch block sends the apology
SendFail(h) ==
    /\ pc[h] = "sending"
    /\ acts' = [acts EXCEPT ![h] = @ \o <<[t |-> "failed", what |-> "send", err |-> SendError],
                                          CatchSend(ChatOf(ev[h]), SendError)>>]
    /\ pc' = [pc EXCEPT ![h] = "apology"]
    /\ UNCHANGED <<otherRevisions, boots, clock, ticks, seen, cbStore, admits, lastOp, issued, ev>>

\* the apology send settles; its failure is swallowed
ApologyDone(h) ==
    /\ pc[h] = "apology"
    /\ pc' = [pc EXCEPT ![h] = "done"]
    /\ UNCHANGED <<otherRevisions, boots, clock, ticks, seen, cbStore, admits, lastOp, issued, ev, acts>>

Tick ==
    /\ \E d \in HandlerSteps : Advance(d, MaxTicks)
    /\ UNCHANGED <<otherRevisions, boots, seen, cbStore, admits, lastOp, issued, pc, ev, acts>>

Next ==
    \/ \E h \in Handlers, b \in Bodies : Deliver(h, b)
    \/ \E h \in Handlers, ok \in BOOLEAN : AnswerDone(h, ok)
    \/ \E h \in Handlers, data \in PlainAnswers : UpstreamOk(h, data)
    \/ \E h \in Handlers, e \in UpstreamErrors : UpstreamFail(h, e)
    \/ \E h \in Handlers : SendOk(h)
    \/ \E h \in Handlers : SendFail(h)
    \/ \E h \in Handlers : ApologyDone(h)
    \/ Tick

Spec == Init /\ [][Next]_vars

----------------------------------------------------------------------------
(* Interleaved handlers whose network calls all succeed                     *)

QuietNext ==
    \/ \E h \in Handlers, b \in Bodies : Deliver(h, b)
    \/ \E h \in Handlers : AnswerDone(h, TRUE)
    \/ \E h \in Handlers : UpstreamOk(h, TextOnly)
    \/ \E h \in Handlers : SendOk(h)
    \/ Tick

SpecQuiet == Init /\ [][QuietNext]_vars

----------------------------------------------------------------------------
(* Events handled one after the other, with any upstream answer; a click    *)
(* carries the callback_data of a button sent before, or a literal          *)

ClickData == IssuedTokens \cup {LitYes}

SendBodies == {TextBody(<<>>, <<>>, S_hi)} \cup {ClickBody(<<>>, <<"1">>, d) : d \in ClickData}

Settled(h) == pc[h] \in {"done", "threw"}

SendNext ==
    \/ \E h \in Handlers, b \in SendBodies :
          (\A g \in Handlers : g < h => Settled(g)) /\ Deliver(h, b)
    \/ \E h \in Handlers, ok \in BOOLEAN : AnswerDone(h, ok)
    \/ \E h \in Handlers, data \in UpstreamAnswers : UpstreamOk(h, data)
    \/ \E h \in Handlers, e \in UpstreamErrors : UpstreamFail(h, e)
    \/ \E h \in Handlers : SendOk(h)
    \/ \E h \in Handlers : SendFail(h)
    \/ \E h \in Handlers : ApologyDone(h)

SpecSend == Init /\ [][SendNext]_vars

----------------------------------------------------------------------------
(* Properties of the handler                                                *)

\* the acts of kind t done by the handlers in Hs
ActsOf(Hs, t) ==
    UNION {{<<h, i>> : i \in {k \in 1 .. Len(acts[h]) : acts[h][k].t = t}} : h \in Hs}

\* the handlers that were called with update identifier u
HandlersOf(u) == {h \in Handlers : pc[h] # "idle" /\ ev[h].update_id = <<u>>}

\* the markSeen call of handler h on its update key
UpdateAdmit(h) ==
    LET is == {i \in 1 .. Len(acts[h]) :
                  acts[h][i].t = "admit"
                  /\ acts[h][i].kind = "u"}
    IN acts[h][CHOOSE i \in is : TRUE]

\* two or more events with update identifier u were delivered less than five
\* minutes apart and all their handlers have returned
Redelivered(u) ==
    /\ Cardinality(HandlersOf(u)) >= 2
    /\ \A h \in HandlersOf(u) : Settled(h)
    /\ \A g, h \in HandlersOf(u) : UpdateAdmit(h).at - UpdateAdmit(g).at < SEEN_TTL_MS

UpdateIds == 1 .. 6

\* C2 as claimed: when two or more events carrying the same update identifier
\* are delivered within the 5-minute window, the whole run performs exactly
\* one upstream call and exactly one outbound send.
C2_ExactlyOneCallAndSend ==
    \A u \in UpdateIds :
        Redelivered(u) =>
            /\ Cardinality(ActsOf(HandlersOf(u), "upstream")) = 1
            /\ Cardinality(ActsOf(HandlersOf(u), "send")) = 1

\* the event of handler h leads to an upstream call once admitted: a click,
\* or a text other than /help
WantsUpstream(h) ==
    \/ IsClick(ev[h])
    \/ /\ ev[h].message # <<>>
       /\ ev[h].message[1].chat_id # 0
       /\ ev[h].message[1].text # <<>>
       /\ Trim(ev[h].message[1].text[1]) \notin {<<>>, HELP_CMD}

\* C2 as amended: of two or more events carrying the same update identifier
\* and delivered within the 5-minute window, exactly one passes the update
\* key and every other handler stops right after its markSeen call; the run
\* performs at most one upstream call and at most one reply send, followed by
\* one apology send exactly when a call failed; it performs exactly one
\* upstream call and exactly one send when the admitted event is a click or a
\* text other than /help, its own key is admitted and no call fails.
C2_DuplicatesHandledOnce ==
    \A u \in UpdateIds :
        Redelivered(u) =>
            LET Hs == HandlersOf(u)
                winners == {h \in Hs : UpdateAdmit(h).ok}
                calls == Cardinality(ActsOf(Hs, "upstream"))
                sends == Cardinality(ActsOf(Hs, "send"))
                failures == Cardinality(ActsOf(Hs, "failed"))
            IN /\ Cardinality(winners) = 1
               /\ \A h \in Hs \ winners : Len(acts[h]) = 2 /\ acts[h][2].t = "admit"
               /\ calls <= 1
               /\ failures <= 1
               /\ sends <= 1 + failures
               /\ \A h \in winners :
                     (/\ WantsUpstream(h)
                      /\ \A a \in ActsOf({h}, "admit") : acts[h][a[2]].ok
                      /\ failures = 0)
                        => calls = 1 /\ sends = 1

\* the same update delivered twice within the window: one call, one send
C2_Witness ==
    \E u \in UpdateIds :
        /\ Redelivered(u)
        /\ Cardinality(ActsOf(HandlersOf(u), "upstream")) = 1
        /\ Cardinality(ActsOf(HandlersOf(u), "send")) = 1
        /\ \E g, h \in HandlersOf(u) : UpdateAdmit(g).ok /\ ~UpdateAdmit(h).ok
                                        /\ UpdateAdmit(h).at > UpdateAdmit(g).at

\* C3: among the markSeen calls that present one key within one window,
\* whatever handlers make them and however the handlers interleave, exactly
\* one returns true; the calls on other keys play no part in the result.
C3_OneAdmissionPerWindow ==
    \A i \in 1 .. Len(admits) :
        Cardinality({j \in 1 .. i : /\ admits[j].key = admits[i].key
                                    /\ admits[j].ok
                                    /\ admits[i].at - admits[j].at < SEEN_TTL_MS}) = 1

\* a handler is rejected on a key while the handler that was admitted on it
\* is still in flight, after a call on another key came in between
C3_Witness ==
    \E i, j \in 1 .. Len(admits) :
        /\ i < j
        /\ admits[i].key = admits[j].key
        /\ admits[i].h # admits[j].h
        /\ admits[i].ok /\ ~admits[j].ok
        /\ pc[admits[i].h] \in {"answering", "upstream", "sending"}
        /\ \E k \in (i + 1) .. (j - 1) : admits[k].key # admits[i].key

\* C9: in every run of the handler the acknowledgment reply.send comes
\* before any upstream call, any answerCallbackQuery call and any send.
C9_AckBeforeAnyCall ==
    \A h \in Handlers : \A i \in 1 .. Len(acts[h]) :
        acts[h][i].t \in {"upstream", "answerCallbackQuery", "send"}
            => \E j \in 1 .. (i - 1) : acts[h][j].t = "ack"

\* a click has been acknowledged, answered, forwarded upstream and replied to
C9_Witness ==
    \E h \in Handlers :
        /\ acts[h] # <<>>
        /\ acts[h][1].t = "ack"
        /\ ActsOf({h}, "answerCallbackQuery") # {}
        /\ ActsOf({h}, "upstream") # {}
        /\ ActsOf({h}, "send") # {}

\* C10: when markSeen returns false for the update, callback or message key
\* of an event, the handler returns at once: no answerCallbackQuery, no
\* token resolution, no upstream call and no send follows.
C10_RejectedMeansNoAction ==
    \A h \in Handlers : \A i \in 1 .. Len(acts[h]) :
        (acts[h][i].t = "admit" /\ ~acts[h][i].ok)
            => /\ i = Len(acts[h])
               /\ pc[h] = "done"
               /\ \A j \in 1 .. i : acts[h][j].t \in {"ack", "admit"}

\* a click whose update key is new and whose callback key was seen
C10_Witness ==
    \E h \in Handlers :
        /\ Len(acts[h]) = 3
        /\ acts[h][2].t = "admit" /\ acts[h][2].ok
        /\ acts[h][3].t = "admit" /\ ~acts[h][3].ok
        /\ acts[h][3].key = "c:1"
        /\ pc[h] = "done"

(* Properties of the outbound encoding *)

\* the inline keyboard buttons of every sendMessage call made so far
SentButtons ==
    UNION {{acts[h][i].markup[k] : k \in 1 .. Len(acts[h][i].markup)} :
             <<h, i>> \in ActsOf(Handlers, "send")}

IssuedFor(token, payload) ==
    \E n \in 1 .. Len(issued) : issued[n].token = token /\ issued[n].payload = payload

\* C7: every callback_data placed in an outbound send is non-empty and at
\* most 64 bytes in UTF-8: it is a literal payload of at most 60 bytes, or a
\* token returned by putCallbackPayload that differs from its payload.
C7_CallbackDataWithinBudget ==
    \A b \in SentButtons :
        /\ b.callback_data # <<>>
        /\ ByteLength(b.callback_data) <= TG_CALLBACK_MAX
        /\ \/ b.callback_data = b.payload /\ ByteLength(b.payload) <= CB_SAFE_BYTES
           \/ b.callback_data # b.payload /\ IssuedFor(b.callback_data, b.payload)

\* a payload longer than the hard limit went out as a token, next to a
\* literal one
C7_Witness ==
    \E b, c \in SentButtons :
        /\ ByteLength(b.payload) > TG_CALLBACK_MAX
        /\ IssuedFor(b.callback_data, b.payload)
        /\ ByteLength(b.callback_data) <= TG_CALLBACK_MAX
        /\ c.callback_data = c.payload

\* C8: a button's payload is sent literally if and only if its UTF-8 byte
\* length is at most 60, otherwise putCallbackPayload is called and its token
\* is sent; so the store never holds a payload of 60 bytes or fewer.
C8_LiteralIffWithinSixtyBytes ==
    /\ \A b \in SentButtons :
          /\ (b.callback_data = b.payload) <=> (ByteLength(b.payload) <= CB_SAFE_BYTES)
          /\ b.callback_data # b.payload => IssuedFor(b.callback_data, b.payload)
    /\ \A n \in 1 .. Len(issued) :
          /\ ByteLength(issued[n].payload) > CB_SAFE_BYTES
          /\ \E b \in SentButtons : b.callback_data = issued[n].token
    /\ \A t \in DOMAIN cbStore : ByteLength(cbStore[t].payload) > CB_SAFE_BYTES

\* a payload of fewer than 60 characters and more than 60 bytes went through
\* put, and a payload of exactly 60 bytes went out literally
C8_Witness ==
    \E b, c \in SentButtons :
        /\ JsLength(b.payload) < CB_SAFE_BYTES
        /\ ByteLength(b.payload) > CB_SAFE_BYTES
        /\ b.callback_data # b.payload
        /\ b.callback_data \in DOMAIN cbStore
        /\ ByteLength(c.payload) = CB_SAFE_BYTES
        /\ c.callback_data = c.payload

----------------------------------------------------------------------------
(* Failures                                                                 *)

\* C11: when the upstream call of a handler fails, whatever was thrown, the
\* handler has made one upstream call and makes no other, and the one send
\* it makes carries the apology constant and no button; nothing of the
\* error reaches the text.
C11_UpstreamFailureGivesOnlyApology ==
    \A h \in Handlers : \A i \in 1 .. Len(acts[h]) :
        (acts[h][i].t = "failed" /\ acts[h][i].what \in {"upstream", "normalize"})
            => /\ Cardinality(ActsOf({h}, "upstream")) = 1
               /\ \A c \in ActsOf({h}, "upstream") : c[2] < i
               /\ Len(acts[h]) = i + 1
               /\ ActsOf({h}, "send") = {<<h, i + 1>>}
               /\ acts[h][i + 1].text = APOLOGY
               /\ acts[h][i + 1].markup = <<>>
               /\ acts[h][i + 1].chat = ChatOf(ev[h])

\* two handlers whose upstream calls failed with different errors have both
\* sent the same text and returned
C11_Witness ==
    \E g, h \in Handlers :
        /\ pc[g] = "done" /\ pc[h] = "done"
        /\ \E i \in 1 .. Len(acts[g]), j \in 1 .. Len(acts[h]) :
              /\ acts[g][i].t = "failed" /\ acts[g][i].what = "upstream"
              /\ acts[h][j].t = "failed" /\ acts[h][j].what = "upstream"
              /\ acts[g][i].err.message # acts[h][j].err.message
              /\ acts[g][i].err.message # <<>>
              /\ acts[g][i + 1].text = acts[h][j + 1].text

\* C12: whatever the inbound event and whatever fails after the
\* acknowledgment, no exception leaves the handler.
C12_NoExceptionEscapes ==
    \A h \in Handlers : pc[h] # "threw"

\* C14: once answerCallbackQuery has settled, with success or with failure,
\* the click is resolved through the store, forwarded upstream with the
\* resolved payload, and answered with a send whenever the upstream call and
\* normalization succeed.
C14_AckOutcomeChangesNothing ==
    \A h \in Handlers : \A i \in 1 .. Len(acts[h]) :
        acts[h][i].t = "answered"
            => /\ Len(acts[h]) >= i + 2
               /\ acts[h][i + 1].t = "resolve"
               /\ acts[h][i + 1].input = ev[h].callback_query[1].data[1]
               /\ \/ acts[h][i + 1].out = acts[h][i + 1].input
                     /\ acts[h][i + 1].input \notin IssuedTokens
                  \/ IssuedFor(acts[h][i + 1].input, acts[h][i + 1].out)
               /\ acts[h][i + 2] = UpstreamAct(ClickUser(ev[h]), FALSE, acts[h][i + 1].out)
               /\ (Settled(h) /\ ActsOf({h}, "failed") = {}) =>
                     /\ Len(acts[h]) = i + 3
                     /\ acts[h][i + 3].t = "send"

\* a click whose acknowledgment failed was resolved from its token to the
\* stored payload, forwarded and answered
C14_Witness ==
    \E h \in Handlers : \E i \in 1 .. Len(acts[h]) :
        /\ acts[h][i].t = "answered" /\ ~acts[h][i].ok
        /\ pc[h] = "done"
        /\ Len(acts[h]) = i + 3
        /\ acts[h][i + 1].out # acts[h][i + 1].input
        /\ acts[h][i + 2].text = acts[h][i + 1].out
        /\ acts[h][i + 3].t = "send"

\* the event carries a non-empty callback data
HasActionData(b) ==
    /\ b.callback_query # <<>>
    /\ b.callback_query[1].data # <<>>
    /\ b.callback_query[1].data[1] # <<>>

\* the event carries a message text that is not blank
HasText(b) ==
    /\ b.message # <<>>
    /\ b.message[1].text # <<>>
    /\ Trim(b.message[1].text[1]) # <<>>

\* C15: an event that fails validation, has neither a message nor a click,
\* or carries neither a non-blank text nor callback data leads to no
\* upstream call, no answerCallbackQuery and no send.
C15_DroppedSilently ==
    \A h \in Handlers :
        (pc[h] # "idle" /\ (\/ ~ev[h].valid
                            \/ (ev[h].message = <<>> /\ ev[h].callback_query = <<>>)
                            \/ (~HasActionData(ev[h]) /\ ~HasText(ev[h]))))
            => /\ ActsOf({h}, "upstream") = {}
               /\ ActsOf({h}, "send") = {}
               /\ ActsOf({h}, "answerCallbackQuery") = {}
               /\ Settled(h)

\* a message without text and a click without data were both dropped after
\* the acknowledgment
C15_Witness ==
    \E g, h \in Handlers :
        /\ pc[g] = "done" /\ pc[h] = "done"
        /\ ev[g].message # <<>> /\ ~HasText(ev[g])
        /\ ev[h].callback_query # <<>> /\ ~HasActionData(ev[h])
        /\ acts[g] = ReplySend /\ acts[h] = ReplySend

\* C16: two markSeen calls present the same key only if they are of the same
\* kind and carry the same raw identifiers; so a call is rejected only after
\* an admission of the same kind and identifiers within the window.
C16_KeysNamespacedByKind ==
    \A j \in 1 .. Len(admits) :
        /\ \A i \in 1 .. j :
              admits[i].key = admits[j].key
                  => (admits[i].kind = admits[j].kind /\ admits[i].ids = admits[j].ids)
        /\ ~admits[j].ok =>
              \E i \in 1 .. (j - 1) :
                  /\ admits[i].ok
                  /\ admits[i].kind = admits[j].kind
                  /\ admits[i].ids = admits[j].ids
                  /\ admits[j].at - admits[i].at < SEEN_TTL_MS

\* update 1, message 1 of chat 1 and callback "1" were all admitted in one
\* window
C16_Witness ==
    \E i, j, k \in 1 .. Len(admits) :
        /\ admits[i].kind = "u" /\ admits[i].ids = <<1>> /\ admits[i].ok
        /\ admits[j].kind = "m" /\ admits[j].ids = <<1, 1>> /\ admits[j].ok
        /\ admits[k].kind = "c" /\ admits[k].ids = <<"1">> /\ admits[k].ok
        /\ admits[k].at - admits[i].at < SEEN_TTL_MS
        /\ i < k

----------------------------------------------------------------------------
(* Progress: the calls to Telegram settle, the upstream may never answer    *)

SpecLive ==
    /\ Init
    /\ [][SendNext]_vars
    /\ \A h \in Handlers :
          /\ WF_vars(\E ok \in BOOLEAN : AnswerDone(h, ok))
          /\ WF_vars(SendOk(h) \/ SendFail(h))
          /\ WF_vars(ApologyDone(h))

\* C13: a handler that has made its upstream call eventually returns, with
\* the reply sent or the apology attempted, even if the upstream never
\* answers.
C13_UpstreamWaitIsBounded ==
    \A h \in Handlers : (pc[h] = "upstream") ~> (pc[h] = "done")

----------------------------------------------------------------------------
(* The normalizer alone: voiceflowInteract's loops and                      *)
(* pickButtonsFromChoicePayload applied to bounded inputs                   *)

SeqsUpTo(S, n) == UNION {[1 .. k -> S] : k \in 0 .. n}

S_A == <<65>>
S_B == <<66>>
S_X == <<88>>
S_Y == <<89>>
S_T == <<84>>
S_yes == LitYes
S_blank == <<32, 32>>

\* item.text values: A, A with a trailing blank, B, "a  b", "a b", a blank,
\* and lines with white space other than blanks inside: "a\n\nb", "a\nb",
\* "a\tb" and "a\r\nb"
LineValues ==
    {S_A, <<65, 32>>, S_B, <<97, 32, 32, 98>>, <<97, 32, 98>>, <<32>>,
     <<97, 10, 10, 98>>, <<97, 10, 98>>, <<97, 9, 98>>, <<97, 13, 10, 98>>}

TextItem(t) == [text |-> <<t>>, messages |-> <<>>]
TextMsg(ty, t) == [type |-> ty, message |-> <<t>>, buttons |-> <<>>]
ChoiceMsg(ty, raw) == [type |-> ty, message |-> <<>>, buttons |-> <<raw>>]

TextTraces ==
    {JsonArray([i \in 1 .. Len(ls) |-> TextItem(ls[i])]) : ls \in SeqsUpTo(LineValues, MaxItems)}

MsgValues == {TextMsg("text", S_A), TextMsg("speak", S_B), TextMsg("card", S_A), JsonNull}

MsgTraces ==
    {JsonArray(<<[text |-> t, messages |-> ms]>>) :
        t \in {<<>>, <<S_A>>}, ms \in SeqsUpTo(MsgValues, MaxItems - 1)}

\* {"A":"x\ty","B":[7,null,false]}: a string with a tab and values that are
\* no strings
MixedObject ==
    Obj(<< <<S_A, Str(<<120, 9, 121>>)>>, <<S_B, Arr(<<Num(7), JsonNull, Bool(FALSE)>>)>> >>)

RawButtonValues ==
    {Btn(<<S_Y>>, <<S_yes>>), Btn(<<S_blank>>, <<S_yes>>), Btn(<<>>, <<S_yes>>),
     Btn(<<S_X>>, <<>>), BtnV(<<S_T>>, Num(7)), BtnV(<<S_B>>, Obj(<<<<S_A, Str(S_yes)>>>>)),
     BtnV(<<S_A>>, MixedObject), BtnL(<<S_X>>, <<>>, <<S_yes>>), BtnL(<<>>, <<S_T>>, <<>>),
     JsonNull}

ButtonTraces ==
    {JsonArray(<<[text |-> <<>>, messages |-> <<ChoiceMsg(ty, raw)>>]>>) :
        ty \in {"choice", "buttons"}, raw \in SeqsUpTo(RawButtonValues, MaxButtons)}

OddTraces ==
    {JsonNotIterable, JsonObject([text |-> <<S_hi>>, messages |-> <<>>]),
     JsonArray(<<JsonNull>>),
     JsonArray(<<[text |-> <<>>, messages |-> <<>>]>>),
     JsonArray(<<[text |-> <<S_A>>, messages |-> <<ChoiceMsg("choice", <<Btn(<<S_Y>>, <<S_yes>>)>>)>>]>>)}

\* one item with text X and text entries A and B in its message list
OrderTraces ==
    {JsonArray(<<[text |-> t, messages |-> ms]>>) :
        t \in {<<S_X>>},
        ms \in SeqsUpTo({TextMsg("text", S_A), TextMsg("text", S_B)}, MaxItems - 1)}

NormInputs == TextTraces \cup MsgTraces \cup ButtonTraces \cup OddTraces \cup OrderTraces

\* {"toString":"x"}: String() of it finds no function to call
OwnToString == Obj(<< <<PROP_TOSTRING, Str(<<120>>)>> >>)

PickEntry(name, label, text, rp, pl) ==
    [name |-> name, label |-> label, text |-> text, request_payload |-> rp, payload |-> pl]

PickEntries ==
    {PickEntry(<<Str(S_Y)>>, <<>>, <<>>, <<Str(S_yes)>>, <<>>),
     PickEntry(<<>>, <<Str(S_X)>>, <<>>, <<>>, <<>>),
     PickEntry(<<Str(S_blank)>>, <<Str(S_X)>>, <<>>, <<>>, <<>>),
     PickEntry(<<>>, <<>>, <<Str(S_T)>>, <<>>, <<Num(7)>>),
     PickEntry(<<>>, <<>>, <<>>, <<Str(S_yes)>>, <<>>),
     PickEntry(<<Str(S_A)>>, <<>>, <<>>, <<Str(S_blank)>>, <<Str(S_yes)>>),
     PickEntry(<<Str(S_B)>>, <<>>, <<>>, <<Obj(<<<<S_A, Str(S_yes)>>>>)>>, <<>>),
     PickEntry(<<OwnToString>>, <<>>, <<>>, <<>>, <<>>),
     PickEntry(<<Str(S_T)>>, <<>>, <<>>, <<>>, <<Arr(<<Arr(<<OwnToString>>), Num(1)>>)>>),
     JsonNull}

PickInputs ==
    {<<[buttons |-> <<raw>>, choices |-> <<>>, options |-> <<>>]>> :
        raw \in SeqsUpTo(PickEntries, MaxButtons)}
    \cup {<<>>,
          <<[buttons |-> <<>>, choices |-> <<>>, options |-> <<>>]>>,
          <<[buttons |-> <<>>, choices |-> << <<PickEntry(<<Str(S_Y)>>, <<>>, <<>>, <<>>, <<>>)>> >>,
             options |-> <<>>]>>,
          <<[buttons |-> <<>>, choices |-> <<>>,
             options |-> << <<PickEntry(<<>>, <<Str(S_X)>>, <<>>, <<>>, <<>>)>> >>]>>}

PObj(m, t, raw) ==
    [ty |-> "object", message |-> m, text |-> t, buttons |-> raw, choices |-> <<>>,
     options |-> <<>>, slate |-> <<>>, richText |-> <<>>, blocks |-> <<>>]

\* a payload with structured text
PSlate(m, t, slate, richText, blocks) ==
    [ty |-> "object", message |-> m, text |-> t, buttons |-> <<>>, choices |-> <<>>,
     options |-> <<>>, slate |-> slate, richText |-> richText, blocks |-> blocks]

S_text == <<116, 101, 120, 116>>
S_slate == <<102, 114, 111, 109, 32, 115, 108, 97, 116, 101>>

\* {"content":[{"children":[{"text":"from slate"}]}]}
SlateValue ==
    Obj(<< << <<99, 111, 110, 116, 101, 110, 116>>,
              Arr(<<Obj(<< << <<99, 104, 105, 108, 100, 114, 101, 110>>,
                              Arr(<<Obj(<< <<S_text, Str(S_slate)>> >>)>>) >> >>)>>) >> >>)

\* [{"text":"a\\nb"},{"text":" "},{"text":7},{"text":"q\"r"}]: a backslash
\* before n, a blank piece, a number and a quote inside a piece
BlocksValue ==
    Arr(<<Obj(<< <<S_text, Str(<<97, 92, 110, 98>>)>> >>),
          Obj(<< <<S_text, Str(<<32>>)>> >>),
          Obj(<< <<S_text, Num(7)>> >>),
          Obj(<< <<S_text, Str(<<113, 34, 114>>)>> >>)>>)

\* [{"text":"A\nB"}]: a line feed inside a piece
RichTextValue == Arr(<<Obj(<< <<S_text, Str(<<65, 10, 66>>)>> >>)>>)

RichMsg(ty, text, p) == [type |-> ty, text |-> text, payload |-> p]

RichItem(ty, text, p, msgs) == [type |-> ty, text |-> text, payload |-> p, messages |-> msgs]

RichPayloads ==
    {<<>>, <<PObj(<<S_A>>, <<S_B>>, <<>>)>>, <<PObj(<<>>, <<S_T>>, <<>>)>>, <<Str(S_Y)>>,
     <<PObj(<<>>, <<>>, << <<PickEntry(<<Str(S_Y)>>, <<>>, <<>>, <<Str(S_yes)>>, <<>>)>> >>)>>,
     <<PObj(<<S_A>>, <<>>, << <<PickEntry(<<Str(S_Y)>>, <<>>, <<>>, <<OwnToString>>, <<>>)>> >>)>>,
     <<PSlate(<<S_A>>, <<>>, <<SlateValue>>, <<RichTextValue>>, <<>>)>>,
     <<PSlate(<<>>, <<>>, <<>>, <<RichTextValue>>, <<BlocksValue>>)>>,
     <<PSlate(<<>>, <<S_T>>, <<>>, <<>>, <<BlocksValue>>)>>,
     <<PSlate(<<>>, <<S_T>>, <<Num(0)>>, <<RichTextValue>>, <<>>)>>}

RichMsgs ==
    {RichMsg("text", <<>>, <<PObj(<<S_yes>>, <<>>, <<>>)>>),
     RichMsg("text", <<<<49>>>>, <<>>),
     RichMsg("card", <<<<50>>>>, <<PObj(<<>>, <<<<51>>>>, <<>>)>>),
     JsonNull}

\* traces of one item with text X, a payload and a message list, and the
\* trace of a null item
RichTraces ==
    {JsonArray(<<RichItem(ty, t, p, ms)>>) :
        ty \in {<<>>, <<"text">>}, t \in {<<>>, <<S_X>>}, p \in RichPayloads,
        ms \in {<<>>} \cup {<<m>> : m \in SeqsUpTo(RichMsgs, MaxItems - 1)}}
    \cup {JsonArray(<<JsonNull>>), JsonNotIterable,
          JsonObject(RichItem(<<>>, <<S_hi>>, <<>>, <<>>)),
          JsonObject(RichItem(<<"text">>, <<>>, <<PObj(<<S_A>>, <<>>, <<>>)>>, <<>>))}

\* one call of voiceflowInteract that receives `data` from the runtime: what
\* it returns, the lines and buttons its loops collected, and the text
\* telegramSendMessage would send for it
Interact(data) ==
    /\ lastOp = NoOp
    /\ \E vf \in {Normalize(data)} : \E acc \in {Scan(data)} :
          lastOp' = [op |-> "normalize", data |-> data, lines |-> acc.texts,
                     btns |-> acc.buttons, out |-> vf,
                     sent |-> IF vf.threw THEN CatchSend(1, vf.err).text
                              ELSE SendAct(1, buildReply(vf).text, <<>>).text]
    /\ UNCHANGED <<otherRevisions, boots, clock, ticks, seen, cbStore, admits, issued, pc, ev, acts>>

Pick(payload) ==
    /\ lastOp = NoOp
    /\ lastOp' = [op |-> "pick", raw |-> payload, out |-> pickButtonsFromChoicePayload(payload)]
    /\ UNCHANGED <<otherRevisions, boots, clock, ticks, seen, cbStore, admits, issued, pc, ev, acts>>

\* one call of the revision of voiceflowInteract that reads the message list
\* before item.text
InteractMessagesFirst(data) ==
    /\ lastOp = NoOp
    /\ \E vf \in {NormalizeMessagesFirst(data)} : \E acc \in {ScanMessagesFirst(data)} :
          lastOp' = [op |-> "normalizeMessagesFirst", data |-> data, lines |-> acc.texts,
                     btns |-> acc.buttons, out |-> vf]
    /\ UNCHANGED <<otherRevisions, boots, clock, ticks, seen, cbStore, admits, issued, pc, ev, acts>>

\* one call of the revision of voiceflowInteract built on extractTextFromVoiceflow
ExtractText(data) ==
    /\ lastOp = NoOp
    /\ lastOp' = [op |-> "extract", data |-> data, lines |-> extractedTexts(data),
                  out |-> [threw |-> FALSE, text |-> extractTextFromVoiceflow(data),
                           buttons |-> <<>>]]
    /\ UNCHANGED <<otherRevisions, boots, clock, ticks, seen, cbStore, admits, issued, pc, ev, acts>>

\* one call of the revision of voiceflowInteract built on pickTextFromPayload
InteractPick(data) ==
    /\ lastOp = NoOp
    /\ \E vf \in {NormalizePick(data)} : \E acc \in {PickScan(data)} :
          lastOp' = [op |-> "normalizePick", data |-> data, lines |-> acc.texts,
                     btns |-> acc.buttons, out |-> vf]
    /\ UNCHANGED <<otherRevisions, boots, clock, ticks, seen, cbStore, admits, issued, pc, ev, acts>>

\* one call of the revision of voiceflowInteract that returns a text only
InteractDedup(data) ==
    /\ lastOp = NoOp
    /\ lastOp' = [op |-> "normalizeDedup", data |-> data, lines |-> ScanDedup(data).texts,
                  out |-> NormalizeDedup(data)]
    /\ UNCHANGED <<otherRevisions, boots, clock, ticks, seen, cbStore, admits, issued, pc, ev, acts>>

NormNext ==
    \/ \E data \in NormInputs : Interact(data)
    \/ \E data \in NormInputs : InteractDedup(data)
    \/ \E payload \in PickInputs : Pick(payload)
    \/ \E data \in NormInputs : InteractMessagesFirst(data)
    \/ \E data \in RichTraces : ExtractText(data)
    \/ \E data \in RichTraces : InteractPick(data)

SpecNorm == Init /\ [][NormNext]_vars

(* Properties of the normalizer *)

NonEmpty(x) == x # <<>>

\* the lines of the messages of one item, in order: the message of every
\* text or speak entry, trimmed, CRLF turned to LF
RECURSIVE MsgLines(_)
MsgLines(msgs) ==
    IF msgs = <<>> THEN <<>>
    ELSE (IF Head(msgs).type \in {"text", "speak"} /\ Head(msgs).message # <<>>
          THEN <<normalizeText(Head(msgs).message[1])>> ELSE <<>>)
         \o MsgLines(Tail(msgs))

RECURSIVE ItemLines(_)
ItemLines(items) ==
    IF items = <<>> THEN <<>>
    ELSE (IF Head(items).text # <<>> THEN <<normalizeText(Head(items).text[1])>> ELSE <<>>)
         \o MsgLines(Head(items).messages) \o ItemLines(Tail(items))

\* the non-empty lines extracted from all items, in order
ExtractedLines(data) == SelectSeq(ItemLines(data.items), NonEmpty)

\* runs of white space collapsed to one blank
RECURSIVE CollapseWhitespace(_)
CollapseWhitespace(s) ==
    IF s = <<>> THEN <<>>
    ELSE IF IsWs(Head(s))
         THEN IF Len(s) >= 2 /\ IsWs(s[2])
              THEN CollapseWhitespace(Tail(s))
              ELSE <<32>> \o CollapseWhitespace(Tail(s))
         ELSE <<Head(s)>> \o CollapseWhitespace(Tail(s))

\* the key of a line: trimmed, CRLF turned to LF, runs of white space
\* collapsed
WhitespaceKey(line) == CollapseWhitespace(normalizeText(line))

\* the key pushUniqueText computes: runs of blanks and tabs collapsed
BlankKey(line) == CollapseBlanks(normalizeText(line))

\* the lines of ls whose key occurs at no earlier position
FirstOccurrences(ls) ==
    LET F[i \in 0 .. Len(ls)] ==
            IF i = 0 THEN <<>>
            ELSE IF \E j \in 1 .. (i - 1) : WhitespaceKey(ls[j]) = WhitespaceKey(ls[i])
                 THEN F[i - 1]
                 ELSE Append(F[i - 1], ls[i])
    IN F[Len(ls)]

\* the positions of ls whose line differs, by BlankKey, from every earlier one
FirstByBlankKey(ls) ==
    LET keep == {i \in 1 .. Len(ls) : \A j \in 1 .. (i - 1) : BlankKey(ls[j]) # BlankKey(ls[i])}
        F[i \in 0 .. Len(ls)] ==
            IF i = 0 THEN <<>> ELSE IF i \in keep THEN Append(F[i - 1], ls[i]) ELSE F[i - 1]
    IN F[Len(ls)]

\* the lines of ls that differ from the line just before them
WithoutRuns(ls) ==
    LET F[i \in 0 .. Len(ls)] ==
            IF i = 0 THEN <<>>
            ELSE IF i > 1 /\ ls[i] = ls[i - 1] THEN F[i - 1]
            ELSE Append(F[i - 1], ls[i])
    IN F[Len(ls)]

\* the lines the revision that returns a text only extracts: the message of
\* every entry of type text, and item.text of an item without messages
RECURSIVE TextMsgLines(_)
TextMsgLines(msgs) ==
    IF msgs = <<>> THEN <<>>
    ELSE (IF ~IsNull(Head(msgs)) /\ Head(msgs).type = "text" /\ Head(msgs).message # <<>>
          THEN <<normalizeText(Head(msgs).message[1])>> ELSE <<>>)
         \o TextMsgLines(Tail(msgs))

RECURSIVE ItemLinesDedup(_)
ItemLinesDedup(items) ==
    IF items = <<>> THEN <<>>
    ELSE TextMsgLines(Head(items).messages)
         \o (IF Head(items).messages = <<>> /\ Head(items).text # <<>>
             THEN <<normalizeText(Head(items).text[1])>> ELSE <<>>)
         \o ItemLinesDedup(Tail(items))

ExtractedLinesDedup(data) == SelectSeq(ItemLinesDedup(data.items), NonEmpty)

\* the lines a call extracted, before any is dropped as a repetition
ExtractedBy(op, data) ==
    IF op = "normalize" THEN ExtractedLines(data) ELSE ExtractedLinesDedup(data)

\* C17: the lines a call of voiceflowInteract keeps are the extracted lines
\* whose key (trimmed, CRLF turned to LF, runs of white space collapsed)
\* occurs at no earlier position of the call, adjacent or not, in
\* first-occurrence order; so A, A, B and A, B, A both give A then B.
C17_DedupIsGlobal ==
    (lastOp.op \in {"normalize", "normalizeDedup"} /\ ~lastOp.out.threw)
        => /\ lastOp.lines = FirstOccurrences(ExtractedBy(lastOp.op, lastOp.data))
           /\ ExtractedBy(lastOp.op, lastOp.data) \in {<<S_A, S_A, S_B>>, <<S_A, S_B, S_A>>}
                 => lastOp.lines = <<S_A, S_B>>

\* what pushUniqueText does: the lines kept are the first occurrences by a
\* key in which only runs of blanks and tabs are collapsed, and the text is
\* those lines joined
C17_UniqueByBlankKey ==
    (lastOp.op = "normalize" /\ ~lastOp.out.threw)
        => /\ lastOp.lines = FirstByBlankKey(ExtractedLines(lastOp.data))
           /\ ExtractedLines(lastOp.data) \in {<<S_A, S_A, S_B>>, <<S_A, S_B, S_A>>}
                 => lastOp.lines = <<S_A, S_B>>
           /\ lastOp.out.text = (IF lastOp.lines = <<>>
                                 THEN (IF lastOp.btns = <<>> THEN ELLIPSIS ELSE CHOOSE_PROMPT)
                                 ELSE JoinLines(lastOp.lines))

\* what pushDedup does: only a line equal to the line just before it is
\* dropped
C17_DedupDropsRunsOnly ==
    (lastOp.op = "normalizeDedup" /\ ~lastOp.out.threw)
        => /\ lastOp.lines = WithoutRuns(ExtractedLinesDedup(lastOp.data))
           /\ lastOp.out.text = (IF lastOp.lines = <<>> THEN ELLIPSIS
                                 ELSE JoinLines(lastOp.lines))

\* the items gave A, B, A: the second A, not adjacent to the first, is dropped
C17_Witness ==
    /\ lastOp.op = "normalize"
    /\ ~lastOp.out.threw
    /\ ExtractedLines(lastOp.data) = <<S_A, S_B, S_A>>
    /\ lastOp.lines = <<S_A, S_B>>

\* pushDedup kept the second A of A, B, A
C17_RepeatKept ==
    /\ lastOp.op = "normalizeDedup"
    /\ ~lastOp.out.threw
    /\ ExtractedLinesDedup(lastOp.data) = <<S_A, S_B, S_A>>
    /\ lastOp.lines = <<S_A, S_B, S_A>>

\* pushUniqueText kept "a\n\nb" and "a\nb", whose keys differ only by a run
\* of line feeds
C17_NewlineRunKept ==
    /\ lastOp.op = "normalize"
    /\ ~lastOp.out.threw
    /\ lastOp.lines = << <<97, 10, 10, 98>>, <<97, 10, 98>> >>
    /\ WhitespaceKey(lastOp.lines[1]) = WhitespaceKey(lastOp.lines[2])

\* C18: what voiceflowInteract returns is never empty: with no line and no
\* button it is the placeholder and no button, with buttons and no line it is
\* the prompt and those buttons; and the text telegramSendMessage sends is
\* never empty.
C18_ResponseNeverEmpty ==
    (lastOp.op = "normalize" /\ ~lastOp.out.threw)
        => /\ lastOp.out.text # <<>>
           /\ lastOp.out.buttons = lastOp.btns
           /\ (ExtractedLines(lastOp.data) = <<>> /\ lastOp.btns = <<>>)
                 => lastOp.out.text = ELLIPSIS
           /\ (ExtractedLines(lastOp.data) = <<>> /\ lastOp.btns # <<>>)
                 => lastOp.out.text = CHOOSE_PROMPT
           /\ lastOp.sent # <<>>
           /\ lastOp.sent = lastOp.out.text

\* an answer with two buttons and only a blank line got the prompt
C18_Witness ==
    /\ lastOp.op = "normalize"
    /\ ~lastOp.out.threw
    /\ ExtractedLines(lastOp.data) = <<>>
    /\ Len(lastOp.out.buttons) = 2
    /\ lastOp.out.text = CHOOSE_PROMPT
    /\ lastOp.sent = CHOOSE_PROMPT

\* C19: voiceflowInteract's normalization never raises, whatever the
\* runtime's answer.
C19_NormalizeNeverRaises ==
    lastOp.op = "normalize" => ~lastOp.out.threw

\* the raw buttons of every choice or buttons entry, in order
RECURSIVE MsgRawButtons(_)
MsgRawButtons(msgs) ==
    IF msgs = <<>> THEN <<>>
    ELSE (IF Head(msgs).type \in {"choice", "buttons"} /\ Head(msgs).buttons # <<>>
          THEN Head(msgs).buttons[1] ELSE <<>>)
         \o MsgRawButtons(Tail(msgs))

RECURSIVE ItemRawButtons(_)
ItemRawButtons(items) ==
    IF items = <<>> THEN <<>>
    ELSE MsgRawButtons(Head(items).messages) \o ItemRawButtons(Tail(items))

\* the title voiceflowInteract's loop gives a raw button: its name, trimmed
NameTitle(b) == IF b.name = <<>> THEN <<>> ELSE Trim(b.name[1])

\* the title of a raw button: the first present of name, label, text, trimmed
RawTitle(b) ==
    IF b.name # <<>> THEN Trim(b.name[1])
    ELSE IF b.label # <<>> THEN Trim(b.label[1])
    ELSE IF b.text # <<>> THEN Trim(b.text[1])
    ELSE <<>>

\* the title of an entry: the first present of name, label, text, trimmed
EntryTitle(b) ==
    IF IsNull(b) THEN <<>>
    ELSE IF b.name # <<>> THEN Trim(JsString(b.name[1]).s)
    ELSE IF b.label # <<>> THEN Trim(JsString(b.label[1]).s)
    ELSE IF b.text # <<>> THEN Trim(JsString(b.text[1]).s)
    ELSE <<>>

PickedEntries(payload) ==
    IF payload = <<>> THEN <<>>
    ELSE IF payload[1].buttons # <<>> THEN payload[1].buttons[1]
    ELSE IF payload[1].choices # <<>> THEN payload[1].choices[1]
    ELSE IF payload[1].options # <<>> THEN payload[1].options[1]
    ELSE <<>>

TitlesOf(buttons) == [i \in 1 .. Len(buttons) |-> buttons[i].title]

\* the buttons pickButtonsFromChoicePayload returns are the entries whose
\* title (first present of name, label, text, trimmed) is not empty, in input
\* order, repeated entries kept
C20_PickIsOrderedFilter ==
    (lastOp.op = "pick" /\ ~lastOp.out.threw) =>
        TitlesOf(lastOp.out.buttons)
          = SelectSeq([i \in 1 .. Len(PickedEntries(lastOp.raw)) |->
                          EntryTitle(PickedEntries(lastOp.raw)[i])], NonEmpty)

\* C20: the buttons extracted are the entries whose title, the first
\* present of name, label, text, trimmed, is not empty, in input order,
\* repeated entries kept, in pickButtonsFromChoicePayload and in the loop of
\* voiceflowInteract alike, for every extraction that returns.
C20_ButtonsAreOrderedFilter ==
    /\ C20_PickIsOrderedFilter
    /\ (lastOp.op = "normalize" /\ ~lastOp.out.threw) =>
          TitlesOf(lastOp.out.buttons)
            = SelectSeq([i \in 1 .. Len(ItemRawButtons(lastOp.data.items)) |->
                            RawTitle(ItemRawButtons(lastOp.data.items)[i])], NonEmpty)

\* what the loop of voiceflowInteract does: the title is the name alone, so
\* the buttons are the entries whose trimmed name is not empty, in order
C20_InteractFiltersByName ==
    (lastOp.op = "normalize" /\ ~lastOp.out.threw) =>
        TitlesOf(lastOp.out.buttons)
          = SelectSeq([i \in 1 .. Len(ItemRawButtons(lastOp.data.items)) |->
                          NameTitle(ItemRawButtons(lastOp.data.items)[i])], NonEmpty)

\* of three entries, the first and third, both titled X by their label, were
\* kept and the second, whose name is blank, was skipped
C20_Witness ==
    /\ lastOp.op = "pick"
    /\ Len(PickedEntries(lastOp.raw)) = 3
    /\ EntryTitle(PickedEntries(lastOp.raw)[2]) = <<>>
    /\ ~IsNull(PickedEntries(lastOp.raw)[1])
    /\ PickedEntries(lastOp.raw)[1].name = <<>>
    /\ ~lastOp.out.threw
    /\ TitlesOf(lastOp.out.buttons) = <<S_X, S_X>>

\* the loop of voiceflowInteract skipped an entry titled X by its label and
\* kept the entry named Y after it
C20_LabelledEntrySkipped ==
    /\ lastOp.op = "normalize"
    /\ ~lastOp.out.threw
    /\ Len(ItemRawButtons(lastOp.data.items)) = 2
    /\ ItemRawButtons(lastOp.data.items)[1].name = <<>>
    /\ RawTitle(ItemRawButtons(lastOp.data.items)[1]) = S_X
    /\ TitlesOf(lastOp.out.buttons) = <<S_Y>>

----------------------------------------------------------------------------
(* Clicks on buttons sent before                                            *)

\* the buttons of the sendMessage calls of handlers started before h, as
\* <<callback_data, payload the button stands for>>
SentBefore(h) ==
    UNION {{<<acts[g][i].markup[k].callback_data, acts[g][i].markup[k].payload>> :
               k \in 1 .. Len(acts[g][i].markup)} :
             <<g, i>> \in ActsOf({g \in Handlers : g < h}, "send")}

\* the getCallbackPayload calls made so far, each with the upstream call that
\* follows it
ResolvedClicks ==
    {<<h, k>> \in ActsOf(Handlers, "resolve") : TRUE}

\* C21: a click carrying the token T of a button sent before with an
\* oversized payload P leads to an upstream call whose text is exactly P, and
\* a click carrying a literal that is no stored token leads to an upstream
\* call with that literal unchanged.
C21_ClickRoundTrip ==
    \A <<h, k>> \in ResolvedClicks :
        LET r == acts[h][k]
            up == acts[h][k + 1]
        IN /\ up.t = "upstream"
           /\ \A b \in SentBefore(h) :
                 (b[1] = r.input /\ b[1] # b[2]) => up.text = b[2]
           /\ (\A b \in SentBefore(h) : b[1] # r.input) => up.text = r.input

\* the same, in the runs in which putCallbackPayload never returned a token
\* that was live
C21_RoundTripWithDistinctTokens ==
    (\A n \in 1 .. Len(issued) : ~issued[n].live) => C21_ClickRoundTrip

\* a click carried the token of an oversized button and the upstream call got
\* that button's payload
C21_TokenClicked ==
    \E <<h, k>> \in ResolvedClicks :
        \E b \in SentBefore(h) :
            /\ b[1] = acts[h][k].input /\ b[1] # b[2]
            /\ acts[h][k + 1].text = b[2]

----------------------------------------------------------------------------
(* The click acknowledgment that never completes                            *)

\* every call settles except telegramAnswerCallbackQuery's, which may stay
\* pending for ever
SpecAckPending ==
    /\ Init
    /\ [][SendNext]_vars
    /\ \A h \in Handlers :
          /\ WF_vars(\/ \E data \in UpstreamAnswers : UpstreamOk(h, data)
                     \/ \E e \in UpstreamErrors : UpstreamFail(h, e))
          /\ WF_vars(SendOk(h) \/ SendFail(h))
          /\ WF_vars(ApologyDone(h))

\* C23: the click acknowledgment is not waited for: a click whose
\* answerCallbackQuery call never completes still goes on to token
\* resolution, the upstream call and the reply, and its handler returns.
C23_ReplyDespitePendingAck ==
    \A h \in Handlers : (pc[h] = "answering") ~> (pc[h] = "done")

----------------------------------------------------------------------------
(* The maps at their high-water mark: the process has admitted SEEN_MAX     *)
(* update identifiers, or has stored CB_MAX payloads for messages that      *)
(* carried no identifier, the first half of them FillGapMs before the       *)
(* second half, and the calls go on. markSeen does not touch cbStore, nor   *)
(* putCallbackPayload and getCallbackPayload seen: a run exercises the map  *)
(* that is full.                                                            *)

MaxSweepOps == 2
SweepTicks == 2
FillGapMs == 1000

FillKey(i) == KeyOf("u", <<i>>)
FillToken(i, at) == makeToken(at, ToBase36(i))

\* seen after markSeen admitted the update identifiers 1 .. SEEN_MAX
FillSeen ==
    [k \in {FillKey(i) : i \in 1 .. (SEEN_MAX \div 2)} |-> StartMs]
    @@ [k \in {FillKey(i) : i \in (SEEN_MAX \div 2 + 1) .. SEEN_MAX} |-> StartMs + FillGapMs]

\* cbStore after CB_MAX putCallbackPayload calls
FillStore ==
    [t \in {FillToken(i, StartMs) : i \in 1 .. (CB_MAX \div 2)} |->
        [payload |-> LongAscii, exp |-> StartMs + CB_TTL_MS]]
    @@ [t \in {FillToken(i, StartMs + FillGapMs) : i \in (CB_MAX \div 2 + 1) .. CB_MAX} |->
        [payload |-> LongAscii, exp |-> StartMs + FillGapMs + CB_TTL_MS]]

SweepInit ==
    /\ clock = StartMs + FillGapMs
    /\ ticks = 0
    /\ \/ seen = FillSeen /\ cbStore = <<>>
       \/ seen = <<>> /\ cbStore = FillStore
    /\ admits = <<>>
    /\ lastOp = NoOp
    /\ issued = <<>>
    /\ pc = [h \in Handlers |-> "idle"]
    /\ ev = [h \in Handlers |-> <<>>]
    /\ acts = [h \in Handlers |-> <<>>]
    /\ boots = <<>>
    /\ balance = <<>>
    /\ userSessions = <<>>
    /\ heap = <<>>
    /\ chats = [open |-> <<>>, made |-> 0, failed |-> 0, apiCallsCount |-> 0]
    /\ locals = [h \in Handlers |-> <<>>]
    /\ timers = <<>>
    /\ unhandled = <<>>
    /\ lastProcessedByChat = <<>>

\* an update identifier admitted long ago, and two that are new
SweepKeys == {FillKey(1), FillKey(SEEN_MAX + 1), FillKey(SEEN_MAX + 2)}

\* a token stored long ago, and one stored lately
SweepTokens == {FillToken(1, StartMs), FillToken(CB_MAX, StartMs + FillGapMs)}

SweepSteps == {SEEN_TTL_MS}

SweepOps == Len(admits) + Len(issued)

SweepTick ==
    /\ \E d \in SweepSteps : Advance(d, SweepTicks)
    /\ UNCHANGED <<otherRevisions, boots, seen, cbStore, admits, lastOp, issued, pc, ev, acts>>

SweepNext ==
    \/ \E key \in SweepKeys : cbStore = <<>> /\ SweepOps < MaxSweepOps /\ Admit(key)
    \/ \E rnd \in RandStrs : seen = <<>> /\ SweepOps < MaxSweepOps /\ Put(LongCyr, rnd)
    \/ \E x \in SweepTokens : seen = <<>> /\ Resolve(x)
    \/ SweepTick

SpecSweep == SweepInit /\ [][SweepNext]_vars

\* C24: neither sweep removes a live entry: every entry markSeen deletes is
\* 5 minutes old or older and every entry putCallbackPayload deletes has
\* expired; so a key whose entry is younger than 5 minutes is rejected and a
\* stored token that has not expired resolves to its payload, sweeps or not.
C24_SweepsKeepLiveEntries ==
    /\ lastOp.op = "admit" =>
          /\ \A k \in DOMAIN lastOp.removed :
                ~(lastOp.at - lastOp.removed[k] < SEEN_TTL_MS)
          /\ (lastOp.prev # <<>> /\ lastOp.at - lastOp.prev[1] < SEEN_TTL_MS) => ~lastOp.ok
    /\ lastOp.op = "put" =>
          \A t \in DOMAIN lastOp.removed : lastOp.removed[t].exp < lastOp.at
    /\ (lastOp.op = "resolve" /\ lastOp.input \in DOMAIN FillStore
            /\ ~(FillStore[lastOp.input].exp < lastOp.at))
          => lastOp.out = FillStore[lastOp.input].payload

\* markSeen swept the old half of a full map and kept an entry admitted a
\* moment before
C24_Witness ==
    /\ lastOp.op = "admit"
    /\ lastOp.size > SEEN_MAX
    /\ lastOp.removed # <<>>
    /\ \E k \in DOMAIN seen \ {lastOp.key} : lastOp.at - seen[k] < SEEN_TTL_MS

\* putCallbackPayload swept the expired half of a full store and kept the
\* entries that expire at this very millisecond
C24_PutSweepReached ==
    /\ lastOp.op = "put"
    /\ lastOp.size > CB_MAX
    /\ lastOp.removed # <<>>
    /\ \E t \in DOMAIN cbStore \ {lastOp.token} : cbStore[t].exp = lastOp.at

\* the entries of s that are older than the window at time now
Stale(s, now) == {k \in DOMAIN s : now - s[k] > SEEN_TTL_MS}

\* C25: a markSeen call made while seen holds more than 5000 entries removes
\* every entry older than 5 minutes (and no other) before it looks its key
\* up; a call made while seen holds 5000 entries or fewer removes none; no
\* other step removes or changes an entry of seen.
C25_SweepOnlyAboveHighWater ==
    [][IF Len(admits') = Len(admits) + 1
       THEN LET call == admits'[Len(admits')]
                swept == IF Cardinality(DOMAIN seen) > SEEN_MAX
                         THEN Stale(seen, call.at) ELSE {}
            IN /\ DOMAIN seen' = (DOMAIN seen \ swept)
                                     \cup (IF call.ok THEN {call.key} ELSE {})
               /\ \A k \in DOMAIN seen' \ {call.key} : seen'[k] = seen[k]
               /\ call.ok = ~(call.key \in DOMAIN seen \ swept
                              /\ call.at - seen[call.key] < SEEN_TTL_MS)
       ELSE seen' = seen]_vars

\* a call found more than 5000 entries, removed the ones older than the
\* window and kept the ones exactly as old as the window
C25_Witness ==
    /\ lastOp.op = "admit"
    /\ lastOp.size > SEEN_MAX
    /\ lastOp.removed # <<>>
    /\ \A k \in DOMAIN lastOp.removed : lastOp.at - lastOp.removed[k] > SEEN_TTL_MS
    /\ \E k \in DOMAIN seen : lastOp.at - seen[k] = SEEN_TTL_MS

\* C26: both maps are bounded: seen never holds more than 5000 + 1 entries
\* and cbStore never more than 5000 + 1.
C26_MapsStayBounded ==
    /\ Cardinality(DOMAIN seen) <= SEEN_MAX + 1
    /\ Cardinality(DOMAIN cbStore) <= CB_MAX + 1

\* a step that is a getCallbackPayload call
IsResolveStep == lastOp' # lastOp /\ lastOp'.op = "resolve"

\* C27 as stated: getCallbackPayload never deletes an entry.
C27_ResolveIsReadOnly ==
    lastOp.op = "resolve" => lastOp.removed = <<>>

\* C27: getCallbackPayload changes no entry and deletes none but the entry
\* it looked up, and that one exactly when it has expired; token entries are
\* removed by that deletion and by the sweep of a putCallbackPayload call that
\* finds more than 5000 entries, and by nothing else.
C27_ResolveDeletesOnlyExpired ==
    [][/\ IsResolveStep =>
             cbStore' = IF lastOp'.known /\ lastOp'.exp < lastOp'.at
                        THEN [t \in DOMAIN cbStore \ {lastOp'.input} |-> cbStore[t]]
                        ELSE cbStore
       /\ (DOMAIN cbStore \ DOMAIN cbStore' # {}) =>
             \/ IsResolveStep
             \/ lastOp' # lastOp /\ lastOp'.op = "put" /\ lastOp'.size > CB_MAX]_vars

\* an expired token was resolved: its entry is gone, the live ones are still
\* there
C27_Witness ==
    /\ lastOp.op = "resolve"
    /\ lastOp.known /\ lastOp.exp < lastOp.at
    /\ DOMAIN lastOp.removed = {lastOp.input}
    /\ lastOp.out = lastOp.input
    /\ \E t \in DOMAIN cbStore : ~(cbStore[t].exp < lastOp.at)

----------------------------------------------------------------------------
(* Redelivery after a failure, layered keys                                 *)

\* handler h has caught a failure of its upstream call or of its reply send
HasFailed(h) == \E i \in 1 .. Len(acts[h]) : acts[h][i].t = "failed"

\* handler h has made an upstream call or a send
HasProcessed(h) == \E i \in 1 .. Len(acts[h]) : acts[h][i].t \in {"upstream", "send"}

\* C28: at most once: a handler's markSeen calls precede its upstream call
\* and its sends, the keys it was admitted with stay in seen when its
\* processing fails, and an event redelivered less than 5 minutes after the
\* admission of the one that failed is rejected and makes no upstream call
\* and no send.
C28_AtMostOnceAfterFailure ==
    /\ \A h \in Handlers : \A i, j \in 1 .. Len(acts[h]) :
          (acts[h][i].t = "admit" /\ acts[h][j].t \in {"upstream", "send"}) => i < j
    /\ \A i \in 1 .. Len(admits) :
          (admits[i].ok /\ HasFailed(admits[i].h)) =>
              /\ admits[i].key \in DOMAIN seen
              /\ seen[admits[i].key] >= admits[i].at
              /\ \A j \in (i + 1) .. Len(admits) :
                    (admits[j].key = admits[i].key
                        /\ admits[j].at - admits[i].at < SEEN_TTL_MS)
                    => /\ ~admits[j].ok
                       /\ ~HasProcessed(admits[j].h)

\* an event was admitted, its upstream call failed and the apology was sent;
\* the same event came again later inside the window and was dropped
C28_Witness ==
    \E i, j \in 1 .. Len(admits) :
        /\ i < j
        /\ admits[i].key = admits[j].key /\ admits[i].kind = "u"
        /\ admits[i].h # admits[j].h
        /\ admits[i].ok /\ ~admits[j].ok
        /\ admits[j].at > admits[i].at
        /\ ev[admits[i].h] = ev[admits[j].h]
        /\ pc[admits[i].h] = "done" /\ pc[admits[j].h] = "done"
        /\ \E n \in 1 .. Len(acts[admits[i].h]) :
              /\ acts[admits[i].h][n].t = "failed"
              /\ acts[admits[i].h][n].what = "upstream"
        /\ ~HasProcessed(admits[j].h)

\* the markSeen calls of handler h on a message key or a callback key
LayerAdmits(h) ==
    {i \in 1 .. Len(acts[h]) : acts[h][i].t = "admit" /\ acts[h][i].kind \in {"m", "c"}}

LayerAdmit(h) == acts[h][CHOOSE i \in LayerAdmits(h) : TRUE]

\* two events with different update identifiers and the same (chat id,
\* message id) or the same callback id, whose handlers have returned, the
\* two markSeen calls on that key less than 5 minutes apart
LayerPair(g, h) ==
    /\ g # h
    /\ pc[g] = "done" /\ pc[h] = "done"
    /\ ev[g].update_id # <<>> /\ ev[h].update_id # <<>>
    /\ ev[g].update_id # ev[h].update_id
    /\ LayerAdmits(g) # {} /\ LayerAdmits(h) # {}
    /\ LayerAdmit(g).key = LayerAdmit(h).key
    /\ LayerAdmit(h).at - LayerAdmit(g).at < SEEN_TTL_MS
    /\ LayerAdmit(g).at - LayerAdmit(h).at < SEEN_TTL_MS

SendsOf(h) == {i \in 1 .. Len(acts[h]) : acts[h][i].t = "send"}

\* C29 as stated: the two events lead to one upstream call and one send.
C29_OneCallOneSend ==
    \A g, h \in Handlers :
        LayerPair(g, h) =>
            /\ Cardinality(ActsOf({g, h}, "upstream")) = 1
            /\ Cardinality(ActsOf({g, h}, "send")) = 1

\* C29: of the two events one is admitted by the message or callback key and
\* the other, admitted by its own update key, is rejected by that key and
\* makes no upstream call and no send; the admitted one makes one upstream
\* call and at most one reply send, followed by one apology send exactly when
\* the upstream call or the reply send failed.
C29_SecondDroppedByLayerKey ==
    \A g, h \in Handlers :
        (LayerPair(g, h) /\ LayerAdmit(g).ok) =>
            /\ ~LayerAdmit(h).ok
            /\ UpdateAdmit(h).ok
            /\ ~HasProcessed(h)
            /\ Cardinality(ActsOf({g}, "upstream")) = 1
            /\ Cardinality({i \in SendsOf(g) : acts[g][i].text # APOLOGY}) <= 1
            /\ Cardinality({i \in SendsOf(g) : acts[g][i].text = APOLOGY})
                  = (IF HasFailed(g) THEN 1 ELSE 0)

\* two messages with update identifiers 1 and 2 and the same chat and
\* message id: the first one's reply send failed and the apology followed,
\* the second was dropped by the message key
C29_Witness ==
    \E g, h \in Handlers :
        /\ LayerPair(g, h)
        /\ LayerAdmit(g).ok /\ LayerAdmit(g).kind = "m"
        /\ Cardinality(SendsOf(g)) = 2
        /\ UpdateAdmit(h).ok /\ ~LayerAdmit(h).ok
        /\ ~HasProcessed(h)

----------------------------------------------------------------------------
(* Restart: the process stops between two requests and is started again;    *)
(* the module is loaded anew, with `seen` and `cbStore` empty               *)

MaxBoots == 1

RestartKeepsSeen ==
    /\ Len(boots) < MaxBoots
    /\ \A h \in Handlers : pc[h] = "idle" \/ Settled(h)
    /\ \E h \in Handlers : pc[h] # "idle"
    /\ cbStore' = <<>>
    /\ boots' = Append(boots, [at |-> clock,
                               served |-> Cardinality({h \in Handlers : pc[h] # "idle"})])
    /\ UNCHANGED <<otherRevisions, clock, ticks, seen, admits, lastOp, issued, pc, ev, acts>>

\* `const seen = new Map()` and `const cbStore = new Map()` run again
Restart ==
    /\ Len(boots) < MaxBoots
    /\ \A h \in Handlers : pc[h] = "idle" \/ Settled(h)
    /\ \E h \in Handlers : pc[h] # "idle"
    /\ seen' = <<>>
    /\ cbStore' = <<>>
    /\ boots' = Append(boots, [at |-> clock,
                               served |-> Cardinality({h \in Handlers : pc[h] # "idle"})])
    /\ UNCHANGED <<otherRevisions, clock, ticks, admits, lastOp, issued, pc, ev, acts>>

\* a message with update identifier 1, and clicks with update identifier 2
\* that carry the callback_data of a button sent before, or a literal
RestartBodies ==
    {TextBody(<<1>>, <<1>>, S_hi)} \cup {ClickBody(<<2>>, <<"1">>, d) : d \in ClickData}

RestartNext ==
    \/ \E h \in Handlers, b \in RestartBodies :
          (\A g \in Handlers : g < h => Settled(g)) /\ Deliver(h, b)
    \/ \E h \in Handlers, ok \in BOOLEAN : AnswerDone(h, ok)
    \/ \E h \in Handlers, data \in UpstreamAnswers : UpstreamOk(h, data)
    \/ \E h \in Handlers, e \in UpstreamErrors : UpstreamFail(h, e)
    \/ \E h \in Handlers : SendOk(h)
    \/ \E h \in Handlers : SendFail(h)
    \/ \E h \in Handlers : ApologyDone(h)
    \/ Restart

SpecRestart == Init /\ [][RestartNext]_vars

\* the number of restarts before handler h was called
Epoch(h) == Cardinality({n \in 1 .. Len(boots) : boots[n].served < h})

\* the callback_data of the buttons sent since the last restart before
\* handler h was called
SentSinceBoot(h) ==
    {b[1] : b \in {c \in SentBefore(h) : TRUE}} \cap
    UNION {{acts[g][i].markup[k].callback_data : k \in 1 .. Len(acts[g][i].markup)} :
             <<g, i>> \in ActsOf({g \in Handlers : g < h /\ Epoch(g) = Epoch(h)}, "send")}

\* C30: after a restart nothing fails: no handler throws; a markSeen call is
\* rejected only because of a call made since the restart, so an event
\* admitted before the restart is admitted again and goes on to its upstream
\* call; a click carrying a token issued before the restart is resolved to
\* the token itself, which is forwarded upstream as the text.
C30_RestartLosesStateOnly ==
    /\ \A h \in Handlers : pc[h] # "threw"
    /\ \A j \in 1 .. Len(admits) :
          admits[j].ok =
              ~(\E i \in 1 .. (j - 1) :
                    /\ admits[i].key = admits[j].key /\ admits[i].ok
                    /\ Epoch(admits[i].h) = Epoch(admits[j].h)
                    /\ admits[j].at - admits[i].at < SEEN_TTL_MS)
    /\ \A h \in Handlers :
          (pc[h] \notin {"idle", "answering"} /\ \A i \in 1 .. Len(acts[h]) :
                                                    acts[h][i].t = "admit" => acts[h][i].ok)
              => HasProcessed(h)
    /\ \A <<h, k>> \in ResolvedClicks :
          acts[h][k].input \notin SentSinceBoot(h) =>
              /\ acts[h][k].out = acts[h][k].input
              /\ acts[h][k + 1].t = "upstream"
              /\ acts[h][k + 1].text = acts[h][k].input

\* a button went out with a token, the process restarted, and a click
\* carrying that token was forwarded upstream as the token and answered
C30_Witness ==
    /\ boots # <<>>
    /\ \E <<h, k>> \in ResolvedClicks :
          /\ Epoch(h) = 1
          /\ acts[h][k].input \in IssuedTokens
          /\ \E b \in SentBefore(h) : b[1] = acts[h][k].input /\ b[2] # b[1]
          /\ acts[h][k + 1].text = acts[h][k].input
          /\ pc[h] = "done"
          /\ ~HasFailed(h)
          /\ SendsOf(h) # {}

\* a message was admitted and answered, the process restarted, and the same
\* message, delivered again, was admitted and answered again
C30_RedeliveryAdmittedAgain ==
    /\ boots # <<>>
    /\ \E g, h \in Handlers :
          /\ g < h /\ Epoch(g) = 0 /\ Epoch(h) = 1
          /\ ev[g] = ev[h] /\ ev[g].message # <<>>
          /\ UpdateAdmit(g).ok /\ UpdateAdmit(h).ok
          /\ pc[h] = "done" /\ SendsOf(h) # {} /\ ~HasFailed(h)

----------------------------------------------------------------------------
(* Events of one user handled at the same time                              *)

\* the upstream call of handler h is in flight
InFlight(h) == pc[h] = "upstream"

\* the user whose conversation handler h called upstream for
UpstreamUser(h) ==
    {acts[h][i].userId : i \in {n \in 1 .. Len(acts[h]) : acts[h][n].t = "upstream"}}

\* handlers g and h handle distinct events of one user, both admitted: g was
\* called first
SameUserPair(g, h) ==
    /\ g < h
    /\ ev[g] # ev[h]
    /\ UpstreamUser(g) # {} /\ UpstreamUser(g) = UpstreamUser(h)

\* C31: events of the same user are not serialized: the next request is
\* handled (up to its own upstream call) as soon as the handlers called
\* before it have started, whatever calls they have in flight, and a send in
\* flight can complete whatever the other handlers are doing.
C31_SameUserNotSerialized ==
    \A h \in Handlers :
        /\ (pc[h] = "idle" /\ \A g \in Handlers : g < h => pc[g] # "idle")
              => \A b \in Bodies : ENABLED Deliver(h, b)
        /\ pc[h] = "sending" => ENABLED SendOk(h)

\* two distinct admitted events of one user have their upstream calls in
\* flight at the same time
C31_Witness ==
    \E g, h \in Handlers : SameUserPair(g, h) /\ InFlight(g) /\ InFlight(h)

\* the reply to the event that arrived second has been sent while the
\* upstream call of the first is still in flight
C31_RepliesOutOfOrder ==
    \E g, h \in Handlers :
        /\ SameUserPair(g, h) /\ InFlight(g)
        /\ pc[h] = "done" /\ SendsOf(h) # {}

----------------------------------------------------------------------------
(* Button payloads of the canonical response                                *)

\* the entries of a raw button list that yield a button, in order
TitledEntries(raw) ==
    SelectSeq(raw, LAMBDA b : PickTitle(b).s # <<>>)

\* the payload the claim gives a button made from entry b: the first present
\* of the nested request payload and the flat payload field, a string as it
\* is (trimmed), another value serialized, and the title when there is no
\* value or the result is empty
ExpectedPayload(b) ==
    LET v == FirstPresent(<<b.request_payload, b.payload>>)
        p == Trim(payloadToString(v, PickTitle(b).s))
    IN IF p = <<>> THEN PickTitle(b).s ELSE p

\* C32: every button of the canonical response has a non-empty string
\* payload: the string value as it is, the serialization of a non-string
\* value, and the title when the value is missing or the result is empty.
C32_ButtonPayloadNeverEmpty ==
    /\ lastOp.op = "normalize" =>
          \A i \in 1 .. Len(lastOp.btns) : lastOp.btns[i].payload # <<>>
    /\ (lastOp.op = "pick" /\ RawButtons(lastOp.raw) # <<>>) =>
          LET kept == TitledEntries(RawButtons(lastOp.raw)[1])
          IN /\ ~lastOp.out.threw
             /\ Len(lastOp.out.buttons) = Len(kept)
             /\ \A i \in 1 .. Len(kept) :
                   /\ lastOp.out.buttons[i].payload # <<>>
                   /\ lastOp.out.buttons[i].payload = ExpectedPayload(kept[i])

\* the loop of voiceflowInteract alone never yields an empty payload
C32_InteractPayloadNeverEmpty ==
    lastOp.op = "normalize" =>
        \A i \in 1 .. Len(lastOp.btns) :
            /\ lastOp.btns[i].payload # <<>>
            /\ lastOp.btns[i].title # <<>>

\* pickButtonsFromChoicePayload, when it returns, yields an empty payload
\* only for a value whose string form is blank
C32_PickEmptyOnlyForBlank ==
    (lastOp.op = "pick" /\ RawButtons(lastOp.raw) # <<>> /\ ~lastOp.out.threw) =>
        LET kept == TitledEntries(RawButtons(lastOp.raw)[1])
        IN \A i \in 1 .. Len(kept) :
              lastOp.out.buttons[i].payload = <<>> <=>
                  LET v == FirstPresent(<<kept[i].request_payload, kept[i].payload>>)
                  IN v # <<>> /\ Trim(JsString(v[1]).s) = <<>>

\* the value String() is applied to for entry b: the title value, and the
\* payload value when the title is not empty
StringThrowsFor(b) ==
    /\ ~IsNull(b)
    /\ \/ PickTitle(b).threw
       \/ PickTitle(b).s # <<>> /\ PickPayload(b, PickTitle(b).s).threw

\* pickButtonsFromChoicePayload throws exactly when String() is applied to
\* an object with an own key toString, and then with a TypeError
C32_PickThrowsOnOwnToString ==
    (lastOp.op = "pick" /\ RawButtons(lastOp.raw) # <<>>) =>
        /\ lastOp.out.threw
              <=> \E i \in 1 .. Len(RawButtons(lastOp.raw)[1]) :
                      StringThrowsFor(RawButtons(lastOp.raw)[1][i])
        /\ lastOp.out.threw => lastOp.out.err = TypeErrorPrimitive

\* a button whose payload is an array that holds such an object made the
\* extraction throw after an earlier button had been taken
C32_PickThrewReached ==
    /\ lastOp.op = "pick"
    /\ lastOp.out.threw
    /\ Len(RawButtons(lastOp.raw)[1]) = 2
    /\ ~StringThrowsFor(RawButtons(lastOp.raw)[1][1])
    /\ PickTitle(RawButtons(lastOp.raw)[1][1]).s = S_Y
    /\ ~PickTitle(RawButtons(lastOp.raw)[1][2]).threw

----------------------------------------------------------------------------
(* The order of the text locations of one item                              *)

RECURSIVE IsSubseq(_, _)
IsSubseq(a, b) ==
    IF a = <<>> THEN TRUE
    ELSE IF b = <<>> THEN FALSE
    ELSE IF Head(a) = Head(b) THEN IsSubseq(Tail(a), Tail(b))
    ELSE IsSubseq(a, Tail(b))

Opt(v) == IF v = <<>> THEN <<>> ELSE <<normalizeText(v[1])>>

\* the strings of the entries of a message list, in list order: of each
\* entry its payload's message, its payload's text, its payload when that is
\* a string, and its own text or message
RECURSIVE EntryCandidates(_)
EntryCandidates(msgs) ==
    IF msgs = <<>> THEN <<>>
    ELSE LET m == Head(msgs)
         IN (IF IsNull(m) THEN <<>>
             ELSE IF "payload" \in DOMAIN m
             THEN Opt(PayloadMessage(m.payload)) \o Opt(PayloadText(m.payload))
                  \o Opt(PayloadString(m.payload)) \o Opt(m.text)
             ELSE Opt(m.message))
            \o EntryCandidates(Tail(msgs))

\* the strings of one item in the order of the claim: its top-level text,
\* the entries of its message list, its top-level payload's message and text
ItemCandidates(item) ==
    IF IsNull(item) THEN <<>>
    ELSE Opt(item.text)
         \o (IF "payload" \in DOMAIN item
             THEN EntryCandidates(IF item.messages = <<>> THEN <<>> ELSE item.messages[1])
                  \o Opt(PayloadMessage(item.payload)) \o Opt(PayloadText(item.payload))
                  \o Opt(PayloadString(item.payload))
             ELSE EntryCandidates(item.messages))

RECURSIVE TraceCandidates(_)
TraceCandidates(items) ==
    IF items = <<>> THEN <<>>
    ELSE ItemCandidates(Head(items)) \o TraceCandidates(Tail(items))

\* the lines a call kept follow the order of the claim
InClaimedOrder ==
    IsSubseq(FirstOccurrences(lastOp.lines),
             TraceCandidates(lastOp.data.items \o lastOp.data.object))

IsTextScan == lastOp.op \in {"normalize", "normalizeMessagesFirst", "extract", "normalizePick"}

\* C33: the lines a call of voiceflowInteract collects from an item are in
\* the order top-level text, entries of the message list in list order,
\* top-level payload message and text, in every revision of its loops.
C33_TextLocationsInPriorityOrder ==
    (IsTextScan /\ ~lastOp.out.threw) => InClaimedOrder

\* the revisions that read item.text first and the item's payload last keep
\* the order
C33_TextFirstRevisionsKeepOrder ==
    (lastOp.op \in {"normalize", "extract"} /\ ~lastOp.out.threw) => InClaimedOrder

\* an item with text at three locations gave its lines in the claimed order
C33_ThreeLocationsReached ==
    /\ lastOp.op = "extract"
    /\ lastOp.lines = <<S_X, S_yes, S_A, S_B>>

\* the revision that reads the message list first puts item.text last
C33_MessagesFirstReached ==
    /\ lastOp.op = "normalizeMessagesFirst"
    /\ lastOp.lines = <<S_A, S_B, S_X>>

----------------------------------------------------------------------------
(* The separator between the lines of the final text                        *)

\* C34: the final text is the kept lines joined with a blank line (two
\* newlines) between consecutive lines, trimmed, in every revision of
\* voiceflowInteract.
C34_LinesJoinedByBlankLine ==
    (IsTextScan /\ ~lastOp.out.threw /\ lastOp.lines # <<>>)
        => lastOp.out.text = Trim(JoinLines(lastOp.lines))

\* the revisions that keep unique lines join them with a blank line
C34_UniqueLinesJoinedByBlankLine ==
    (lastOp.op \in {"normalize", "normalizeMessagesFirst"} /\ ~lastOp.out.threw
       /\ lastOp.lines # <<>>)
        => /\ lastOp.out.text = Trim(JoinLines(lastOp.lines))
           /\ lastOp.lines = FirstByBlankKey(lastOp.lines)

\* the revisions that read payloads join their lines with one newline, and
\* keep repeated lines
C34_PayloadRevisionsJoinByNewline ==
    (lastOp.op \in {"extract", "normalizePick"} /\ ~lastOp.out.threw /\ lastOp.lines # <<>>)
        => lastOp.out.text = Trim(JoinNewline(lastOp.lines))

\* two lines came out with a single newline between them
C34_SingleNewlineReached ==
    /\ lastOp.op = "normalizePick"
    /\ lastOp.lines = <<S_X, S_T>>
    /\ lastOp.out.text = <<88, 10, 84>>

----------------------------------------------------------------------------
(* chatWithAI and its sessions (openaiService)                              *)
(* a session object is [messages: sequence of [role, content],              *)
(* lastActivity: ms]; userSessions names one object of the heap per user    *)

HISTORY_MAX == 20
SESSIONS_MAX == 1000
SESSION_TTL_MS == 24 * 60 * 60 * 1000

\* cleanOldSessions: the sessions idle for more than 24 hours are deleted
cleanOldSessions(us, hp, now) ==
    [u \in {v \in DOMAIN us : ~(now - hp[us[v]].lastActivity > SESSION_TTL_MS)} |-> us[u]]

\* session.messages.slice(-20)
LastMessages(msgs) ==
    IF Len(msgs) > HISTORY_MAX THEN SubSeq(msgs, Len(msgs) - HISTORY_MAX + 1, Len(msgs))
    ELSE msgs

\* the push of the reply: session.messages.push({role: 'assistant', ...})
PushReply(msgs, reply) == Append(msgs, [role |-> "assistant", content |-> reply])

\* chatWithAI up to its await: the session is found or created, the user's
\* message is pushed and the history cut to its last 20 messages.
\* Gives the new map, the new heap and the session object the call holds.
chatWithAIBegin(us, hp, userId, userMessage, isStart, now) ==
    LET us1 == IF Cardinality(DOMAIN us) > SESSIONS_MAX THEN cleanOldSessions(us, hp, now)
               ELSE us
        fresh == userId \notin DOMAIN us1 \/ isStart
        hp1 == IF fresh THEN Append(hp, [messages |-> <<>>, lastActivity |-> now]) ELSE hp
        obj == IF fresh THEN Len(hp1) ELSE us1[userId]
        us2 == IF fresh THEN (userId :> obj) @@ us1 ELSE us1
        pushed == Append(hp1[obj].messages, [role |-> "user", content |-> userMessage])
    IN [us |-> us2,
        hp |-> [hp1 EXCEPT ![obj] = [messages |-> LastMessages(pushed), lastActivity |-> now]],
        obj |-> obj]

\* chatWithAI after its await, when the completion came: the reply is pushed
\* to the session object the call holds
chatWithAIReply(hp, obj, reply) ==
    [hp EXCEPT ![obj].messages = PushReply(@, reply)]

\* clearSession
clearSession(us, userId) == [u \in DOMAIN us \ {userId} |-> us[u]]

\* the stored history of a user
History(u) == heap[userSessions[u]].messages

(* chatWithAI called directly *)

MaxChats == 11
MaxInFlight == 2
MaxStarts == 1
MaxFailed == 1

ChatUsers == {"1"}
AI_REPLY == <<111, 107>>
QUOTA_TEXT == <<9888, 65039, 32, 1048, 1079, 1074, 1080, 1085, 1080, 44, 32, 1089, 1077, 1088, 1074, 1080, 1089, 32, 1074, 1088, 1077, 1084, 1077, 1085, 1085, 1086, 32, 1085, 1077, 1076, 1086, 1089, 1090, 1091, 1087, 1077, 1085, 46, 32, 1055, 1086, 1087, 1088, 1086, 1073, 1091, 1081, 32, 1087, 1086, 1079, 1078, 1077, 46>>
ChatOutcomes == {"reply", "quota", "error"}

ChatCall(u, isStart) ==
    /\ Len(chats.open) < MaxInFlight
    /\ chats.made < MaxChats
    /\ (isStart \/ u \notin DOMAIN userSessions) => Len(heap) <= MaxStarts
    /\ \E r \in {chatWithAIBegin(userSessions, heap, u, <<104, 105>>, isStart, clock)} :
          /\ userSessions' = r.us
          /\ heap' = r.hp
          /\ chats' = [chats EXCEPT !.made = @ + 1,
                                    !.open = Append(@, [userId |-> u, obj |-> r.obj])]
    /\ lastOp' = [op |-> "chatBegin", userId |-> u, isStart |-> isStart]
    /\ UNCHANGED <<clock, ticks, seen, cbStore, admits, issued, pc, ev, acts, boots>>
    /\ UNCHANGED <<balance, timers, unhandled, lastProcessedByChat, locals>>

\* the completion request of call c settles: with a reply, with a quota
\* error (a fixed text is returned) or with another error (rethrown)
ChatSettle(c, outcome) ==
    /\ c \in 1 .. Len(chats.open)
    /\ outcome # "reply" => chats.failed < MaxFailed
    /\ heap' = IF outcome = "reply" THEN chatWithAIReply(heap, chats.open[c].obj, AI_REPLY)
               ELSE heap
    /\ chats' = [chats EXCEPT !.failed = IF outcome = "reply" THEN @ ELSE @ + 1,
                              !.apiCallsCount = IF outcome = "reply" THEN @ + 1 ELSE @,
                              !.open = SubSeq(@, 1, c - 1) \o SubSeq(@, c + 1, Len(@))]
    /\ lastOp' = [op |-> "chatEnd", userId |-> chats.open[c].userId, outcome |-> outcome,
                  threw |-> outcome = "error",
                  text |-> IF outcome = "reply" THEN AI_REPLY
                           ELSE IF outcome = "quota" THEN QUOTA_TEXT ELSE <<>>]
    /\ UNCHANGED <<clock, ticks, seen, cbStore, admits, issued, pc, ev, acts, boots>>
    /\ UNCHANGED <<balance, userSessions, timers, unhandled, lastProcessedByChat, locals>>

ChatClear(u) ==
    /\ u \in DOMAIN userSessions
    /\ lastOp.op # "clear"
    /\ userSessions' = clearSession(userSessions, u)
    /\ lastOp' = [op |-> "clear", userId |-> u]
    /\ UNCHANGED <<clock, ticks, seen, cbStore, admits, issued, pc, ev, acts, boots>>
    /\ UNCHANGED <<balance, heap, chats, timers, unhandled, lastProcessedByChat, locals>>

\* the exported resetApiStats is called: the counter of completions goes
\* back to 0 (the count of tokens, which it clears too, is not a variable here)
resetApiStats ==
    /\ chats' = [chats EXCEPT !.apiCallsCount = 0]
    /\ UNCHANGED <<clock, ticks, seen, cbStore, admits, lastOp, issued, pc, ev, acts, boots>>
    /\ UNCHANGED <<balance, userSessions, heap, timers, unhandled, lastProcessedByChat, locals>>

ChatNext ==
    \/ \E u \in ChatUsers, isStart \in BOOLEAN : ChatCall(u, isStart)
    \/ \E c \in 1 .. MaxInFlight, outcome \in ChatOutcomes : ChatSettle(c, outcome)
    \/ \E u \in ChatUsers : ChatClear(u)
    \/ resetApiStats

SpecChat == Init /\ [][ChatNext]_vars

\* C37: the stored history of every session holds at most 20 messages,
\* after any sequence of chatWithAI calls.
C37_HistoryAtMostTwenty ==
    \A i \in 1 .. Len(heap) : Len(heap[i].messages) <= HISTORY_MAX

\* the history is cut when the user's message is pushed: it never holds more
\* than 20 messages at the await, and never more than 20 plus the replies
\* pushed since
C37_HistoryCutOnlyAtPush ==
    /\ \A i \in 1 .. Len(heap) : Len(heap[i].messages) <= HISTORY_MAX + MaxInFlight
    /\ lastOp.op = "chatBegin" => Len(History(lastOp.userId)) <= HISTORY_MAX

\* a stored history of 21 messages, after the reply of the eleventh call
C37_TwentyOneReached ==
    \E u \in DOMAIN userSessions : Len(History(u)) = HISTORY_MAX + 1

----------------------------------------------------------------------------
(* isDuplicate, the per-chat duplicate filter of the earlier handler        *)
(* messageId and text are optional: <<>> or <<value>>                       *)

DUP_TTL_MS == 60000

\* what isDuplicate returns: prev is the entry read before the stale entry
\* is deleted from the map
isDuplicateResult(m, chatId, messageId, text, now) ==
    IF chatId \notin DOMAIN m THEN FALSE
    ELSE LET prev == m[chatId]
             sameId == messageId # <<>> /\ prev.messageId = messageId
             sameText == text # <<>> /\ prev.text = text
         IN sameId \/ sameText

\* lastProcessedByChat after the call
isDuplicateStore(m, chatId, messageId, text, now) ==
    LET entry == [messageId |-> messageId, text |-> text, ts |-> now]
        m1 == IF chatId \in DOMAIN m /\ now - m[chatId].ts > DUP_TTL_MS
              THEN [c \in DOMAIN m \ {chatId} |-> m[c]]
              ELSE m
    IN IF chatId \notin DOMAIN m THEN (chatId :> entry) @@ m
       ELSE IF isDuplicateResult(m, chatId, messageId, text, now) THEN m1
       ELSE (chatId :> entry) @@ m1

MaxDupCalls == 3
DupTicks == 2

DupChats == {1, 2}
DupIds == {<<>>, <<5>>, <<6>>}
DupTexts == {<<104, 105>>, <<111, 107>>}
DupSteps == {DUP_TTL_MS, 1}

DupCalls == IF lastOp.op = "isDuplicate" THEN lastOp.n ELSE 0

\* the handler reaches `if (isDuplicate(chatId, messageId, text)) return;`
DupCall(chatId, messageId, text) ==
    /\ DupCalls < MaxDupCalls
    /\ lastProcessedByChat' = isDuplicateStore(lastProcessedByChat, chatId, messageId, text, clock)
    /\ lastOp' = [op |-> "isDuplicate", n |-> DupCalls + 1, chatId |-> chatId,
                  messageId |-> messageId, text |-> text, at |-> clock,
                  prev |-> IF chatId \in DOMAIN lastProcessedByChat
                           THEN <<lastProcessedByChat[chatId]>> ELSE <<>>,
                  result |-> isDuplicateResult(lastProcessedByChat, chatId, messageId, text,
                                               clock)]
    /\ UNCHANGED <<clock, ticks, seen, cbStore, admits, issued, pc, ev, acts, boots>>
    /\ UNCHANGED <<balance, userSessions, heap, chats, timers, unhandled, locals>>

DupTick ==
    /\ \E d \in DupSteps : Advance(d, DupTicks)
    /\ UNCHANGED <<seen, cbStore, admits, lastOp, issued, pc, ev, acts, boots, otherRevisions>>

DupNext ==
    \/ \E chatId \in DupChats, messageId \in DupIds, text \in DupTexts :
          DupCall(chatId, messageId, text)
    \/ DupTick

SpecDup == Init /\ [][DupNext]_vars

\* the remembered message of the call's chat was recorded within the
\* previous 60 seconds
RecentPrev ==
    /\ lastOp.prev # <<>>
    /\ lastOp.at - lastOp.prev[1].ts <= DUP_TTL_MS

SameAsPrev ==
    \/ lastOp.messageId # <<>> /\ lastOp.prev[1].messageId = lastOp.messageId
    \/ lastOp.prev[1].text = lastOp.text

\* C38: a message is reported as a duplicate only if the last processed
\* message of its chat was recorded within the previous 60 seconds and has
\* the same message id or the same text; otherwise it is recorded as the
\* chat's last processed message.
C38_StaleEntryDiscardedFirst ==
    lastOp.op = "isDuplicate" =>
        /\ lastOp.result = (RecentPrev /\ SameAsPrev)
        /\ ~lastOp.result =>
              /\ lastOp.chatId \in DOMAIN lastProcessedByChat
              /\ lastProcessedByChat[lastOp.chatId] =
                    [messageId |-> lastOp.messageId, text |-> lastOp.text, ts |-> lastOp.at]

\* what the code does: the comparison is with the entry read before the
\* deletion, whatever its age; a stale entry that matches is deleted and the
\* message is reported as a duplicate and not recorded
C38_ComparedWithStaleEntry ==
    lastOp.op = "isDuplicate" =>
        /\ lastOp.result = (lastOp.prev # <<>> /\ SameAsPrev)
        /\ (lastOp.result /\ ~RecentPrev) => lastOp.chatId \notin DOMAIN lastProcessedByChat
        /\ (lastOp.result /\ RecentPrev) =>
              lastProcessedByChat[lastOp.chatId] = lastOp.prev[1]

\* a message with the text of one recorded more than 60 seconds before was
\* reported as a duplicate
C38_StaleDuplicateReached ==
    /\ lastOp.op = "isDuplicate"
    /\ lastOp.result
    /\ lastOp.at - lastOp.prev[1].ts > DUP_TTL_MS

----------------------------------------------------------------------------
(* The billing revision of the webhook handler                              *)

\* the credit functions this revision imports from supabaseService: the
\* balance of a user is one number, read and updated atomically
PACKAGES == <<[id |-> <<112, 49>>, messages |-> 2, stars |-> 1]>>

hasMessagesRemaining(bal, userId) == bal[userId] > 0

getMessagesRemaining(bal, userId) == bal[userId]

\* takes one credit if there is one; the new balance is what it returns
consumeMessage(bal, userId) == [bal EXCEPT ![userId] = IF @ > 0 THEN @ - 1 ELSE 0]

\* adds the credits of a paid package; the new balance is what it returns
addMessages(bal, userId, n) == [bal EXCEPT ![userId] = @ + n]

\* PRICING.PACKAGES.find((p) => p.id === packageId), as an optional
FindPackage(packageId) ==
    LET hits == SelectSeq(PACKAGES, LAMBDA p : p.id = packageId)
    IN IF hits = <<>> THEN <<>> ELSE <<hits[1]>>

BUY_PREFIX == <<98, 117, 121, 95>>
PACKAGE_PREFIX == <<112, 97, 99, 107, 97, 103, 101, 95>>
BALANCE_CMD == <<47, 98, 97, 108, 97, 110, 99, 101>>
BUY_CMD == <<47, 98, 117, 121>>
STATS_CMD == <<47, 115, 116, 97, 116, 115>>
START_PROMPT == <<1055, 1088, 1080, 1074, 1077, 1090, 33, 32, 1056, 1072, 1089, 1089, 1082, 1072, 1078, 1080, 32, 1082, 1072, 1082, 32, 1090, 1099, 32, 1084, 1086, 1078, 1077, 1096, 1100, 32, 1087, 1086, 1084, 1086, 1095, 1100, 32, 1084, 1085, 1077, 32, 1073, 1088, 1086, 1089, 1080, 1090, 1100, 32, 1082, 1091, 1088, 1080, 1090, 1100, 63>>
ADMIN_CHAT_ID == "99"
OFFER_DELAY_MS == 2000
ALERT_EVERY == 100

StartsWith(s, p) == Len(s) >= Len(p) /\ SubSeq(s, 1, Len(p)) = p

\* String.prototype.replace(p, ''): the first occurrence of p is removed
RECURSIVE ReplaceFirst(_, _)
ReplaceFirst(s, p) ==
    IF Len(s) < Len(p) THEN s
    ELSE IF SubSeq(s, 1, Len(p)) = p THEN SubSeq(s, Len(p) + 1, Len(s))
    ELSE <<Head(s)>> \o ReplaceFirst(Tail(s), p)

ApiAct(method, what) == [t |-> "api", method |-> method, what |-> what]
DbAct(fn) == [t |-> "db", fn |-> fn]
AiAct(userId, isStart) == [t |-> "ai", userId |-> userId, isStart |-> isStart]
FailedAct(label) == [t |-> "failed", what |-> label]

NoLocals ==
    [chatId |-> 0, userId |-> "", text |-> <<>>, remaining |-> 0, pkg |-> <<>>,
     result |-> <<>>, obj |-> 0]

\* what the schema of `message` keeps: message_id, text, chat and from; a
\* z.object drops every key it does not name
ParseMessage(m) ==
    [message_id |-> m.message_id, text |-> m.text, chat_id |-> m.chat_id, from_id |-> m.from_id]

\* UpdateSchema.parse(req.body): only the outer object passes unknown keys
\* through
UpdateSchemaParse(body) ==
    [body EXCEPT !.message = IF @ = <<>> THEN <<>> ELSE <<ParseMessage(@[1])>>]

\* (msg as any).successful_payment
PaymentOf(msg) ==
    IF "successful_payment" \in DOMAIN msg THEN msg.successful_payment ELSE <<>>

\* the handler from its entry to its first await or return
BillEntry(body, s, now) ==
    LET b == UpdateSchemaParse(body)
        hasU == b.update_id # <<>>
        uKey == KeyOf("u", b.update_id)
        pre == IF hasU THEN Append(ReplySend, AdmitAct(s, "u", b.update_id, now))
               ELSE ReplySend
        s1 == IF hasU THEN MarkSeenStore(s, uKey, now) ELSE s
        Stop(as, sn) == [acts |-> as, seen |-> sn, next |-> "done", loc |-> NoLocals]
    IN IF hasU /\ ~MarkSeenResult(s, uKey, now) THEN Stop(pre, s1)
       ELSE IF b.pre_checkout_query # <<>>
       THEN [acts |-> Append(pre, ApiAct("answerPreCheckoutQuery", "ok")), seen |-> s1,
             next |-> "precheckout", loc |-> NoLocals]
       ELSE IF b.callback_query # <<>>
       THEN LET cb == b.callback_query[1]
            IN IF cb.chat_id = <<>> \/ cb.chat_id[1] = 0 \/ cb.data = <<>> \/ cb.data[1] = <<>>
               THEN Stop(pre, s1)
               ELSE [acts |-> Append(pre, ApiAct("answerCallbackQuery", "ok")), seen |-> s1,
                     next |-> "answerCb",
                     loc |-> [NoLocals EXCEPT !.chatId = cb.chat_id[1]]]
       ELSE IF b.message = <<>> \/ b.message[1].chat_id = 0 THEN Stop(pre, s1)
       ELSE LET msg == b.message[1]
                chatId == msg.chat_id
                userId == ToString(IF msg.from_id # <<>> THEN msg.from_id[1] ELSE chatId)
                text == IF msg.text = <<>> THEN <<>> ELSE Trim(msg.text[1])
                loc == [NoLocals EXCEPT !.chatId = chatId, !.userId = userId, !.text = text]
            IN IF PaymentOf(msg) # <<>>
               THEN LET pkg == FindPackage(ReplaceFirst(PaymentOf(msg)[1].invoice_payload,
                                                        PACKAGE_PREFIX))
                    IN IF pkg = <<>> THEN Stop(pre, s1)
                       ELSE [acts |-> Append(pre, DbAct("addMessages")), seen |-> s1,
                             next |-> "addMessages", loc |-> [loc EXCEPT !.pkg = pkg]]
               ELSE IF text = <<>> THEN Stop(pre, s1)
               ELSE LET hasM == msg.message_id # <<>>
                        ids == <<chatId>> \o msg.message_id
                        pre1 == IF hasM THEN Append(pre, AdmitAct(s1, "m", ids, now)) ELSE pre
                        s2 == IF hasM THEN MarkSeenStore(s1, KeyOf("m", ids), now) ELSE s1
                    IN IF hasM /\ ~MarkSeenResult(s1, KeyOf("m", ids), now) THEN Stop(pre1, s2)
                       ELSE [acts |-> Append(pre1, DbAct("getOrCreateUser")), seen |-> s2,
                             next |-> "getUser", loc |-> loc]

\* what a step of handler h leaves behind; a step changes some of it
Base(h) ==
    [next |-> pc[h], log |-> <<>>, loc |-> locals[h], bal |-> balance,
     us |-> userSessions, hp |-> heap, calls |-> chats.apiCallsCount, arm |-> <<>>]

Call(r, label, act) == [r EXCEPT !.next = label, !.log = Append(@, act)]

Return(r) == [r EXCEPT !.next = "done"]

\* a rejection the handler swallows (an empty catch, or one that logs)
Swallow(r, label, ok) == IF ok THEN r ELSE [r EXCEPT !.log = Append(@, FailedAct(label))]

\* a rejection inside the try block: the catch block logs it and alerts the
\* administrator before it apologises
Catch(r, label) ==
    Call([r EXCEPT !.log = Append(@, FailedAct(label))], "alert",
         ApiAct("sendMessage", "adminAlert"))

\* a rejection outside the try block: the handler's promise rejects
Escape(r, label) == [r EXCEPT !.next = "escaped", !.log = Append(@, FailedAct(label))]

\* sendChatAction has settled: chatWithAI runs up to its await
BeginChat(r, isStart, now) ==
    LET msg == IF isStart THEN START_PROMPT ELSE r.loc.text
        c == chatWithAIBegin(r.us, r.hp, r.loc.userId, msg, isStart, now)
    IN Call([r EXCEPT !.us = c.us, !.hp = c.hp, !.loc.obj = c.obj], "chat",
            AiAct(r.loc.userId, isStart))

\* getOrCreateUser has resolved: the commands, then the credit check
AfterGetUser(r) ==
    LET text == r.loc.text
    IN IF text = START_CMD
       THEN Call([r EXCEPT !.us = clearSession(@, r.loc.userId)], "startRemaining",
                 DbAct("getMessagesRemaining"))
       ELSE IF text = HELP_CMD THEN Call(r, "helpRemaining", DbAct("getMessagesRemaining"))
       ELSE IF text \in {BALANCE_CMD, BUY_CMD}
       THEN Call(r, "offerRemaining", DbAct("getMessagesRemaining"))
       ELSE IF text = STATS_CMD /\ ADMIN_CHAT_ID # "" /\ ToString(r.loc.chatId) = ADMIN_CHAT_ID
       THEN Call(r, "adminStats", DbAct("getAdminStats"))
       ELSE Call(r, "hasMessages", DbAct("hasMessagesRemaining"))

\* what follows checkAndAlertApiUsage: /start returns; a message that took
\* the last credit schedules the payment options
AfterUsage(r, isStart, now) ==
    IF ~isStart /\ r.loc.remaining = 0
    THEN Return([r EXCEPT !.arm = <<[chatId |-> r.loc.chatId, due |-> now + OFFER_DELAY_MS,
                                     state |-> "armed"]>>])
    ELSE Return(r)

\* checkAndAlertApiUsage: when the count of completions is a multiple of
\* 100 it awaits getAdminStats and the alert; otherwise it awaits nothing
checkAndAlertApiUsage(r, isStart, now) ==
    LET r1 == [r EXCEPT !.log = Append(@, [t |-> "usage"])]
    IN IF r.calls % ALERT_EVERY = 0 THEN Call(r1, "usageStats", DbAct("getAdminStats"))
       ELSE AfterUsage(r1, isStart, now)

TelegramAwaits ==
    {"precheckout", "answerCb", "invoice", "paidMsg", "paidAlert", "typing", "reply",
     "usageAlert", "help", "offer", "stats", "alert", "apology"}

\* the Telegram request handler h awaits has settled
AfterTelegram(h, ok, now) ==
    LET r == Base(h)
        at == pc[h]
        isStart == r.loc.text = START_CMD
    IN CASE at = "precheckout" -> Return(Swallow(r, at, ok))
         [] at = "answerCb" ->
              LET data == ev[h].callback_query[1].data[1]
                  r1 == Swallow(r, at, ok)
              IN IF StartsWith(data, BUY_PREFIX)
                 THEN IF FindPackage(ReplaceFirst(data, BUY_PREFIX)) = <<>> THEN Return(r1)
                      ELSE Call(r1, "invoice", ApiAct("sendInvoice", "invoice"))
                 ELSE Return(r1)
         [] at = "invoice" -> IF ok THEN Return(r) ELSE Escape(r, at)
         [] at = "paidMsg" ->
              IF ok THEN Call(r, "paidAlert", ApiAct("sendMessage", "adminAlert"))
              ELSE Escape(r, at)
         [] at = "paidAlert" -> Return(Swallow(r, at, ok))
         [] at = "typing" -> BeginChat(Swallow(r, at, ok), isStart, now)
         [] at = "reply" ->
              IF ok THEN checkAndAlertApiUsage(r, isStart, now) ELSE Catch(r, at)
         [] at = "usageAlert" -> AfterUsage(Swallow(r, at, ok), isStart, now)
         [] at \in {"help", "offer", "stats"} -> IF ok THEN Return(r) ELSE Catch(r, at)
         [] at = "alert" -> Call(Swallow(r, at, ok), "apology", ApiAct("sendMessage", "apology"))
         [] at = "apology" -> Return(Swallow(r, at, ok))

DatabaseAwaits ==
    {"addMessages", "getUser", "startRemaining", "helpRemaining", "offerRemaining",
     "adminStats", "hasMessages", "consume", "newRemaining", "usageStats"}

\* the database request handler h awaits has settled
AfterDatabase(h, ok) ==
    LET r == Base(h)
        at == pc[h]
        u == r.loc.userId
        isStart == r.loc.text = START_CMD
        Reply(q) == Call(q, "reply", ApiAct("sendMessage", "reply"))
    IN IF ~ok THEN (IF at = "addMessages" THEN Escape(r, at) ELSE Catch(r, at))
       ELSE
       CASE at = "addMessages" ->
              Call([r EXCEPT !.bal = addMessages(@, u, r.loc.pkg[1].messages),
                             !.log = Append(@, [t |-> "credited",
                                                n |-> r.loc.pkg[1].messages])],
                   "paidMsg", ApiAct("sendMessage", "paid"))
         [] at = "getUser" -> AfterGetUser(r)
         [] at = "startRemaining" ->
              Call([r EXCEPT !.loc.remaining = getMessagesRemaining(r.bal, u)], "typing",
                   ApiAct("sendChatAction", "typing"))
         [] at = "helpRemaining" -> Call(r, "help", ApiAct("sendMessage", "help"))
         [] at = "offerRemaining" -> Call(r, "offer", ApiAct("sendMessage", "offer"))
         [] at = "adminStats" -> Call(r, "stats", ApiAct("sendMessage", "stats"))
         [] at = "hasMessages" ->
              IF hasMessagesRemaining(r.bal, u)
              THEN Call(r, "typing", ApiAct("sendChatAction", "typing"))
              ELSE Call(r, "offer", ApiAct("sendMessage", "offer"))
         [] at = "consume" ->
              LET after == consumeMessage(r.bal, u)
                  r1 == [r EXCEPT !.bal = after,
                                  !.log = Append(@, [t |-> "consumed", before |-> r.bal[u],
                                                     after |-> after[u]])]
              IN IF isStart THEN Call(r1, "newRemaining", DbAct("getMessagesRemaining"))
                 ELSE Reply([r1 EXCEPT !.loc.remaining = after[u]])
         [] at = "newRemaining" -> Reply(r)
         [] at = "usageStats" -> Call(r, "usageAlert", ApiAct("sendMessage", "adminAlert"))

\* the completion request handler h awaits has settled
AfterAi(h, outcome) ==
    LET r == Base(h)
        isStart == r.loc.text = START_CMD
        text == IF outcome = "reply" THEN AI_REPLY ELSE QUOTA_TEXT
        r1 == [r EXCEPT !.hp = IF outcome = "reply" THEN chatWithAIReply(@, r.loc.obj, AI_REPLY)
                                ELSE @,
                        !.calls = IF outcome = "reply" THEN @ + 1 ELSE @,
                        !.loc.result = text,
                        !.log = Append(@, [t |-> "aiResult", outcome |-> outcome])]
    IN IF outcome = "error" THEN Catch(r, "chat")
       ELSE IF isStart /\ ~(r.loc.remaining > 0)
       THEN Call(r1, "newRemaining", DbAct("getMessagesRemaining"))
       ELSE Call(r1, "consume", DbAct("consumeMessage"))

MaxBillFailures == 1
MaxBillTicks == 1
InitialCredits == 1

\* the completions that succeeded before: none, and one less than a
\* multiple of 100
InitialApiCalls == {0, ALERT_EVERY - 1}

BillUsers == {"1", ADMIN_CHAT_ID}

BillMessage(u, mid, chatId, text, payment) ==
    [update_id |-> u, pre_checkout_query |-> <<>>, callback_query |-> <<>>,
     successful_payment |-> <<>>,
     message |-> <<[message_id |-> mid, text |-> text, chat_id |-> chatId,
                    from_id |-> <<chatId>>, successful_payment |-> payment]>>]

BillText(u, text) == BillMessage(<<u>>, <<u>>, 1, <<text>>, <<>>)

BillPayment(u, payload) == BillMessage(<<u>>, <<u>>, 1, <<>>, <<[invoice_payload |-> payload]>>)

\* a payment whose successful_payment is also a key of the update itself
BillPaymentTwice(u, payload) ==
    [BillPayment(u, payload) EXCEPT !.successful_payment = <<[invoice_payload |-> payload]>>]

BillClick(u, data) ==
    [update_id |-> <<u>>, pre_checkout_query |-> <<>>, message |-> <<>>,
     successful_payment |-> <<>>,
     callback_query |-> <<[id |-> "7", data |-> <<data>>, chat_id |-> <<1>>]>>]

BillPreCheckout(u) ==
    [update_id |-> <<u>>, pre_checkout_query |-> <<[id |-> "9"]>>, message |-> <<>>,
     successful_payment |-> <<>>, callback_query |-> <<>>]

BillBodies ==
    {BillText(1, S_hi), BillText(2, S_hi), BillText(3, START_CMD), BillText(4, HELP_CMD),
     BillText(5, BALANCE_CMD), BillText(6, BUY_CMD),
     BillMessage(<<7>>, <<7>>, 99, <<STATS_CMD>>, <<>>),
     BillMessage(<<8>>, <<8>>, 1, <<>>, <<>>),
     BillPayment(9, PACKAGE_PREFIX \o PACKAGES[1].id),
     BillPaymentTwice(10, PACKAGE_PREFIX \o PACKAGES[1].id),
     BillClick(11, BUY_PREFIX \o PACKAGES[1].id), BillClick(12, BUY_PREFIX),
     BillClick(13, LitYes), BillPreCheckout(14)}

\* the rejections so far
BillFailures ==
    Len(unhandled)
    + Cardinality({<<h, i>> \in Handlers \X (1 .. 20) :
                      i <= Len(acts[h]) /\ acts[h][i].t \in {"failed", "aiResult"}
                      /\ (acts[h][i].t = "aiResult" => acts[h][i].outcome = "quota")})

BillInit ==
    /\ clock = StartMs
    /\ ticks = 0
    /\ seen = <<>>
    /\ cbStore = <<>>
    /\ admits = <<>>
    /\ lastOp = NoOp
    /\ issued = <<>>
    /\ pc = [h \in Handlers |-> "idle"]
    /\ ev = [h \in Handlers |-> <<>>]
    /\ acts = [h \in Handlers |-> <<>>]
    /\ boots = <<>>
    /\ balance = [u \in BillUsers |-> InitialCredits]
    /\ userSessions = <<>>
    /\ heap = <<>>
    /\ chats \in {[open |-> <<>>, made |-> 0, failed |-> 0, apiCallsCount |-> n] :
                    n \in InitialApiCalls}
    /\ locals = [h \in Handlers |-> NoLocals]
    /\ timers = <<>>
    /\ unhandled = <<>>
    /\ lastProcessedByChat = <<>>

\* the effects of a step of handler h
Apply(h, r) ==
    /\ pc' = [pc EXCEPT ![h] = r.next]
    /\ acts' = [acts EXCEPT ![h] = @ \o r.log]
    /\ locals' = [locals EXCEPT ![h] = r.loc]
    /\ balance' = r.bal
    /\ userSessions' = r.us
    /\ heap' = r.hp
    /\ timers' = timers \o r.arm
    /\ chats' = [chats EXCEPT !.apiCallsCount = r.calls]
    /\ UNCHANGED <<clock, ticks, seen, cbStore, admits, lastOp, issued, ev, boots>>
    /\ UNCHANGED <<unhandled, lastProcessedByChat>>

\* the webhook is called for a request; handlers are called in arrival order
\* and none waits for another
BillDeliver(h, b) ==
    /\ pc[h] = "idle"
    /\ \A g \in Handlers : g < h => pc[g] # "idle"
    /\ \E r \in {BillEntry(b, seen, clock)} :
          /\ seen' = r.seen
          /\ acts' = [acts EXCEPT ![h] = r.acts]
          /\ pc' = [pc EXCEPT ![h] = r.next]
          /\ locals' = [locals EXCEPT ![h] = r.loc]
          /\ admits' = admits \o AdmitsOf(r.acts, h)
    /\ ev' = [ev EXCEPT ![h] = b]
    /\ UNCHANGED <<clock, ticks, cbStore, lastOp, issued, boots>>
    /\ UNCHANGED <<balance, userSessions, heap, chats, timers, unhandled, lastProcessedByChat>>

TelegramSettles(h, ok) ==
    /\ pc[h] \in TelegramAwaits
    /\ ~ok => BillFailures < MaxBillFailures
    /\ Apply(h, AfterTelegram(h, ok, clock))

DatabaseSettles(h, ok) ==
    /\ pc[h] \in DatabaseAwaits
    /\ ~ok => pc[h] \notin {"adminStats", "usageStats"} /\ BillFailures < MaxBillFailures
    /\ Apply(h, AfterDatabase(h, ok))

AiSettles(h, outcome) ==
    /\ pc[h] = "chat"
    /\ outcome # "reply" => BillFailures < MaxBillFailures
    /\ Apply(h, AfterAi(h, outcome))

\* the callback scheduled with setTimeout runs: sendPaymentOptions(chatId, 0)
\* up to its await
TimerFires(t) ==
    /\ t \in 1 .. Len(timers)
    /\ timers[t].state = "armed"
    /\ clock >= timers[t].due
    /\ timers' = [timers EXCEPT ![t].state = "sending"]
    /\ UNCHANGED <<core, balance, userSessions, heap, chats, unhandled, lastProcessedByChat,
                   locals>>

\* the send of the timer's callback settles; nothing awaits or catches the
\* promise the callback returned
TimerSettles(t, ok) ==
    /\ t \in 1 .. Len(timers)
    /\ timers[t].state = "sending"
    /\ ~ok => BillFailures < MaxBillFailures
    /\ timers' = [timers EXCEPT ![t].state = IF ok THEN "sent" ELSE "rejected"]
    /\ unhandled' = IF ok THEN unhandled
                    ELSE Append(unhandled, [from |-> "timer", chatId |-> timers[t].chatId])
    /\ UNCHANGED <<core, balance, userSessions, heap, chats, lastProcessedByChat, locals>>

BillTick ==
    /\ Advance(OFFER_DELAY_MS, MaxBillTicks)
    /\ UNCHANGED <<seen, cbStore, admits, lastOp, issued, pc, ev, acts, boots, otherRevisions>>

BillNext ==
    \/ \E h \in Handlers, b \in BillBodies : BillDeliver(h, b)
    \/ \E h \in Handlers, ok \in BOOLEAN : TelegramSettles(h, ok)
    \/ \E h \in Handlers, ok \in BOOLEAN : DatabaseSettles(h, ok)
    \/ \E h \in Handlers, outcome \in ChatOutcomes : AiSettles(h, outcome)
    \/ \E t \in 1 .. NHandlers : TimerFires(t)
    \/ \E t \in 1 .. NHandlers, ok \in BOOLEAN : TimerSettles(t, ok)
    \/ BillTick

SpecBill == BillInit /\ [][BillNext]_vars

----------------------------------------------------------------------------
\* the awaits of the handler that no try block surrounds
OutsideTry == {"invoice", "addMessages", "paidMsg"}

LastAct(h) == acts[h][Len(acts[h])]

\* C35: in the billing revision every failure after the acknowledgment is
\* caught: no rejection (of the invoice send for a buy click, of the credit
\* update or the confirmation for a successful payment, of the delayed
\* payment-options message) leaves the handler, and none is an unhandled
\* rejection.
C35_EveryFailureCaught ==
    /\ \A h \in Handlers : pc[h] # "escaped"
    /\ unhandled = <<>>

\* what the code does: the rejections that leave the handler are those of
\* the awaits outside the try block, the unhandled ones are those of the
\* timer's callback, and a rejection inside the try block ends in the
\* apology
C35_OnlyTryBlockIsGuarded ==
    /\ \A h \in Handlers :
          /\ pc[h] = "escaped" => LastAct(h).t = "failed" /\ LastAct(h).what \in OutsideTry
          /\ \A i \in 1 .. Len(acts[h]) :
                (acts[h][i].t = "failed" /\ acts[h][i].what \in DatabaseAwaits \ OutsideTry)
                    => /\ pc[h] \in {"alert", "apology", "done"}
                       /\ acts[h][i + 1] = ApiAct("sendMessage", "adminAlert")
    /\ \A i \in 1 .. Len(unhandled) : unhandled[i].from = "timer"

\* what the code does with a successful payment: the parsed message has no
\* successful_payment, so the handler never reaches the credit update, the
\* confirmation or the payment alert, and no balance grows
C35_PaymentBranchNeverEntered ==
    /\ \A h \in Handlers :
          /\ pc[h] \notin {"addMessages", "paidMsg", "paidAlert"}
          /\ \A i \in 1 .. Len(acts[h]) : acts[h][i].t # "credited"
    /\ \A u \in BillUsers : balance[u] <= InitialCredits

\* a message with a successful payment for a known package was handled, and
\* the handler returned after the acknowledgment without a call
C35_PaymentDropped ==
    \E h \in Handlers :
        /\ pc[h] = "done"
        /\ ev[h].message # <<>>
        /\ ev[h].message[1].successful_payment # <<>>
        /\ FindPackage(ReplaceFirst(ev[h].message[1].successful_payment[1].invoice_payload,
                                    PACKAGE_PREFIX)) # <<>>
        /\ \A i \in 1 .. Len(acts[h]) : acts[h][i].t \notin {"db", "api"}

\* the invoice send of a buy click was rejected and left the handler
C35_InvoiceFailureEscaped ==
    \E h \in Handlers :
        /\ pc[h] = "escaped"
        /\ ev[h].callback_query # <<>>
        /\ LastAct(h) = FailedAct("invoice")

\* the delayed payment-options message was rejected with nothing to catch it
C35_TimerRejectionUnhandled ==
    /\ unhandled # <<>>
    /\ \E t \in 1 .. Len(timers) : timers[t].state = "rejected"
    /\ \A h \in Handlers : pc[h] \in {"idle", "done"}

----------------------------------------------------------------------------
HasAct(h, a) == \E i \in 1 .. Len(acts[h]) : acts[h][i] = a

\* handler h handles a text message of user u that is not a command
PlainMessageOf(h, u) ==
    /\ pc[h] # "idle"
    /\ locals[h].userId = u
    /\ HasAct(h, DbAct("hasMessagesRemaining"))

AiCallsOf(u) == {h \in Handlers : PlainMessageOf(h, u) /\ HasAct(h, AiAct(u, FALSE))}

RepliedTo(u) ==
    {h \in AiCallsOf(u) : HasAct(h, ApiAct("sendMessage", "reply"))
                         /\ pc[h] \in {"usageStats", "usageAlert", "done"}}

\* no credit of user u was added or taken by anything but its text messages
OnlyTextMessages(u) ==
    \A h \in Handlers : (pc[h] # "idle" /\ locals[h].userId = u) => PlainMessageOf(h, u)

\* of the text messages of a user holding N credits, at most N lead to an AI
\* call
C36_AtMostNCalls ==
    \A u \in BillUsers : OnlyTextMessages(u) => Cardinality(AiCallsOf(u)) <= InitialCredits

\* a message is answered only if a credit was there for it to take
C36_AnsweredOnlyWithCredit ==
    \A u \in BillUsers : \A h \in RepliedTo(u) :
        \E i \in 1 .. Len(acts[h]) : acts[h][i].t = "consumed" /\ acts[h][i].before > 0

\* a credit is taken only after the AI call of the same message succeeded
C36_ConsumedOnlyAfterSuccess ==
    \A h \in Handlers : \A i \in 1 .. Len(acts[h]) :
        (acts[h][i].t = "consumed" /\ acts[h][i].after < acts[h][i].before)
            => \E j \in 1 .. i - 1 : acts[h][j] = [t |-> "aiResult", outcome |-> "reply"]

\* C36: message credits are never overspent under concurrency: of the
\* concurrently handled text messages of a user holding N credits at most N
\* lead to an AI call and a reply, a message is answered only if a credit is
\* available for it, and a credit is consumed only after the AI call
\* succeeded.
C36_CreditsNeverOverspent ==
    /\ C36_AtMostNCalls
    /\ C36_AnsweredOnlyWithCredit
    /\ C36_ConsumedOnlyAfterSuccess

\* what the code does: the credit is checked before the AI call and taken
\* after it, so a message is sent to the AI only if the balance was positive
\* at some moment after its arrival, and a handler takes at most one credit
C36_CheckedThenTaken ==
    \A h \in Handlers :
        /\ Cardinality({i \in 1 .. Len(acts[h]) : acts[h][i].t = "consumed"}) <= 1
        /\ \A i \in 1 .. Len(acts[h]) :
              acts[h][i].t = "consumed" =>
                  \E j \in 1 .. i - 1 : acts[h][j].t = "aiResult"
                                        /\ acts[h][j].outcome \in {"reply", "quota"}

\* two messages of one user were answered by the AI on a single credit
C36_TwoAnsweredOnOneCredit ==
    \E u \in BillUsers :
        /\ OnlyTextMessages(u)
        /\ Cardinality(RepliedTo(u)) > InitialCredits
        /\ balance[u] = 0
        /\ \A h \in RepliedTo(u) : locals[h].result = AI_REPLY

\* a credit was taken for a message the AI did not answer
C36_CreditTakenAfterQuotaError ==
    \E h \in Handlers : \E i \in 1 .. Len(acts[h]) :
        /\ acts[h][i] = [t |-> "consumed", before |-> InitialCredits,
                         after |-> InitialCredits - 1]
        /\ acts[h][i - 1] = DbAct("consumeMessage")
        /\ HasAct(h, [t |-> "aiResult", outcome |-> "quota"])

====
